---- MODULE Spec2Model ----
(***************************************************************************)
(* A model of the DICOM viewer's MVVM core: MainViewModel (volume, cursor, *)
(* window, tool, annotation mask, slice extraction, pixel-to-voxel         *)
(* mapping), the three SliceView widgets (per-view slice index, brush-drag *)
(* flag, mouse and wheel handlers) and the MainWindow slots that connect   *)
(* the ViewModel's signals to the views.                                   *)
(*                                                                         *)
(* Qt delivers one event at a time and every signal is a direct call, so   *)
(* each action below is one event handler run to completion, the slots it  *)
(* triggers included.                                                      *)
(***************************************************************************)
EXTENDS Integers, Sequences, FiniteSets, TLC

VARIABLES
    volume,          \* MainViewModel._volume (and AppState.raw_image, the same array)
    mask_image,      \* AppState.mask_image
    current_cursor,  \* AppState.current_cursor, (z, y, x)
    window_width,    \* AppState.window_width
    window_level,    \* AppState.window_level
    current_tool,    \* MainViewModel._current_tool
    brush_radius,    \* MainViewModel._brush_radius
    overlay_opacity, \* MainViewModel._overlay_opacity, in hundredths
    current_index,   \* SliceView._current_index, one per view
    drawing,       \* SliceView._drawing, one per view
    left_press,      \* history: the view that received the last left press, the
                     \* tool then active and whether a volume was loaded; NoPress
                     \* once a left release followed it
    img_shape_hw,    \* SliceView._img_shape_hw, one per view
    shown_window,    \* the (width, level) behind the pixmap on each view's label, None
                     \* while the label shows no image
    slider_ww,       \* MainWindow._slider_ww.value()
    slider_wl,       \* MainWindow._slider_wl.value()
    last_right_pos,  \* SliceView._last_right_pos, one per view, None while unset
    render_calls,    \* history: the get_slice_display_image calls the views made during
                     \* it, each with whether another view then held a slice index
                     \* beyond the volume
    ev,              \* history: the handler or ViewModel method that ran last
    signals,         \* history: the signals the ViewModel emitted during it
    raised,          \* history: the exception it ended with, "none" if none
    ret              \* history: a direct ViewModel call's arguments and return value

vars == <<volume, mask_image, current_cursor, window_width, window_level,
          current_tool, brush_radius, overlay_opacity, current_index, drawing,
          left_press, img_shape_hw, shown_window, slider_ww, slider_wl, last_right_pos,
          render_calls, ev, signals, raised, ret>>

vm_vars == <<volume, mask_image, current_cursor, window_width, window_level,
             current_tool, brush_radius, overlay_opacity>>

view_vars == <<current_index, drawing, left_press, img_shape_hw, shown_window, slider_ww,
               slider_wl, last_right_pos>>

-----------------------------------------------------------------------------
(* Bounds of the model *)

\* direct set_cursor calls take each coordinate from -1 .. MaxCoord
MaxCoord == 2

\* in a session, pointer coordinates relative to a view's image label range
\* over -1 .. MaxPos
MaxPos == 2

\* in direct calls, pointer coordinates range over -1 .. MaxPix, display sizes
\* over 0 .. MaxDisplay and slice sizes over 0 .. MaxSlice
MaxPix == 3
MaxDisplay == 3
MaxSlice == 2

\* brush radii the paint harness draws from: 1 .. MaxRadius
MaxRadius == 2

\* the largest slice_index a direct ViewModel call is given (the least is -1)
MaxIndexArg == 4

\* direct set_window calls take the width from -MaxWidthArg .. MaxWidthArg and
\* the level from -MaxLevelArg .. MaxLevelArg, besides the ends and defaults of
\* the sliders
MaxWidthArg == 3
MaxLevelArg == 1

\* direct calls with degenerate sizes take each display and slice dimension
\* from -1 .. MaxDegenerate
MaxDegenerate == 1

\* a right-drag moves the pointer between (0, 0) and (MaxDragX, MaxDragY)
MaxDragX == 325
MaxDragY == 200

-----------------------------------------------------------------------------
(* Program constants *)

DefaultWindowWidth == 1500
DefaultWindowLevel == -600
DefaultBrushRadius == 5
\* MainViewModel._overlay_opacity starts at 0.5; opacities are in hundredths
DefaultOverlayOpacity == 50
OpacityScale == 100
MinBrushRadius == 1
MaxBrushRadius == 50
\* the range a right-drag keeps the window in, and the sliders' ranges
MinWindowWidth == 200
MaxWindowWidth == 3000
MinWindowLevel == -1000
MaxWindowLevel == 1000
SliderMinWidth == 200
SliderMaxWidth == 3000
SliderMinLevel == -1000
SliderMaxLevel == 1000
\* window units per pixel of a right-drag
DragGain == 4
\* the 1e-5 added to the window's width before the division is 1 / EpsInverse
EpsInverse == 100000

Orientations == {"axial", "coronal", "sagittal"}

\* the order in which MainWindow's slots walk the three views
ViewOrder == <<"axial", "coronal", "sagittal">>

None == <<>>

\* left_press while the left button is up
NoPress == [view |-> "none", tool |-> "none", loaded |-> FALSE]

\* left_press where presses and releases reach the views in any order, as a
\* test that calls the handlers delivers them: no press is followed there
Unpaired == [view |-> "any", tool |-> "none", loaded |-> FALSE]

\* ret while the last event was no direct call of a ViewModel method
NoCall == [fn |-> "none"]

-----------------------------------------------------------------------------
(* numpy and Python arithmetic *)

Min2(a, b) == IF a <= b THEN a ELSE b
Max2(a, b) == IF a >= b THEN a ELSE b

\* np.clip(v, lo, hi) == minimum(maximum(v, lo), hi)
np_clip(v, lo, hi) == Min2(Max2(v, lo), hi)

\* int(a / b) for integers a and b > 0: true division, then truncation toward zero
int_div(a, b) == IF a >= 0 THEN a \div b ELSE -((-a) \div b)

\* a[i] on an axis of length n: a negative i counts from the end, anything
\* outside -n .. n-1 is an IndexError
IndexInBounds(n, i) == -n <= i /\ i < n
np_index(n, i) == IF i < 0 THEN i + n ELSE i

Voxels(shape) == (0 .. shape[1] - 1) \X (0 .. shape[2] - 1) \X (0 .. shape[3] - 1)

\* np.zeros((d, h, w), dtype=np.uint8)
np_zeros(shape) == [v \in Voxels(shape) |-> 0]

\* A 2-D array: rows, cols and the element at <<r, c>>
Pixels(rows, cols) == (0 .. rows - 1) \X (0 .. cols - 1)
Array2(rows, cols, at) == [rows |-> rows, cols |-> cols, at |-> at]

\* np.flipud(m): rows reversed
np_flipud(m) ==
    Array2(m.rows, m.cols,
           [p \in Pixels(m.rows, m.cols) |-> m.at[<<m.rows - 1 - p[1], p[2]>>]])

\* np.fliplr(m): columns reversed
np_fliplr(m) ==
    Array2(m.rows, m.cols,
           [p \in Pixels(m.rows, m.cols) |-> m.at[<<p[1], m.cols - 1 - p[2]>>]])

\* np.rot90(m, k=1): a quarter turn counter-clockwise, the result is cols x rows
np_rot90_ccw(m) ==
    Array2(m.cols, m.rows,
           [p \in Pixels(m.cols, m.rows) |-> m.at[<<p[2], m.cols - 1 - p[1]>>]])

\* np.rot90(m, k=3): a quarter turn clockwise, the result is cols x rows
np_rot90_cw(m) ==
    Array2(m.cols, m.rows,
           [p \in Pixels(m.cols, m.rows) |-> m.at[<<m.rows - 1 - p[2], p[1]>>]])

\* arr[i, :, :], arr[:, i, :] and arr[:, :, i] for an in-bounds i
plane_z(arr, shape, i) ==
    Array2(shape[2], shape[3],
           [p \in Pixels(shape[2], shape[3]) |-> arr[<<np_index(shape[1], i), p[1], p[2]>>]])
plane_y(arr, shape, i) ==
    Array2(shape[1], shape[3],
           [p \in Pixels(shape[1], shape[3]) |-> arr[<<p[1], np_index(shape[2], i), p[2]>>]])
plane_x(arr, shape, i) ==
    Array2(shape[1], shape[2],
           [p \in Pixels(shape[1], shape[2]) |-> arr[<<p[1], p[2], np_index(shape[3], i)>>]])

\* the length of the axis an orientation holds fixed
AxisLength(shape, orientation) ==
    IF orientation = "axial" THEN shape[1]
    ELSE IF orientation = "coronal" THEN shape[2]
    ELSE shape[3]

\* the component of a (z, y, x) triple on the axis an orientation holds fixed
AxisCoord(zyx, orientation) ==
    IF orientation = "axial" THEN zyx[1]
    ELSE IF orientation = "coronal" THEN zyx[2]
    ELSE zyx[3]

-----------------------------------------------------------------------------
(* MainViewModel: queries *)

NoVolume == [loaded |-> FALSE, shape |-> <<0, 0, 0>>, array |-> <<>>]
NoMask == [present |-> FALSE, shape |-> <<0, 0, 0>>, array |-> <<>>]

\* slice extraction whose sagittal branch mirrors the (D, H) plane left-right
\* instead of turning, mirroring and turning back
slice_img_mirrored(arr, shape, orientation, slice_index) ==
    IF orientation = "axial" THEN plane_z(arr, shape, slice_index)
    ELSE IF orientation = "coronal" THEN np_flipud(plane_y(arr, shape, slice_index))
    ELSE np_fliplr(plane_x(arr, shape, slice_index))

\* MainViewModel.get_slice_display_image, lines 233-244: the slice of the
\* volume array with the orientation's rotation and flips applied
slice_img(arr, shape, orientation, slice_index) ==
    IF orientation = "axial" THEN plane_z(arr, shape, slice_index)
    ELSE IF orientation = "coronal" THEN np_flipud(plane_y(arr, shape, slice_index))
    ELSE np_rot90_cw(np_fliplr(np_rot90_ccw(plane_x(arr, shape, slice_index))))

\* a crosshair whose coronal column is mirrored, as on a half-turned slice
crosshair_half_turn(shape, cursor, orientation) ==
    IF orientation = "axial" THEN <<cursor[2], cursor[3]>>
    ELSE IF orientation = "coronal"
    THEN <<shape[1] - 1 - cursor[1], shape[3] - 1 - cursor[3]>>
    ELSE <<shape[1] - 1 - cursor[1], cursor[2]>>

\* MainViewModel.get_slice_display_image, lines 261-273: the crosshair's
\* (row, col) on the display image, None when the cursor is outside the volume
crosshair(shape, cursor, orientation) ==
    LET d == shape[1]
        h == shape[2]
        w == shape[3]
        z == cursor[1]
        y == cursor[2]
        x == cursor[3]
    IN  IF orientation = "axial"
        THEN IF 0 <= y /\ y < h /\ 0 <= x /\ x < w THEN <<y, x>> ELSE None
        ELSE IF orientation = "coronal"
        THEN IF 0 <= z /\ z < d /\ 0 <= x /\ x < w THEN <<d - 1 - z, x>> ELSE None
        ELSE IF 0 <= z /\ z < d /\ 0 <= y /\ y < h THEN <<d - 1 - z, y>> ELSE None

\* MainViewModel.get_slice_display_image: None without a volume, an IndexError
\* for a slice_index numpy rejects, else the image: its size, the slice it
\* shows (before windowing) and the crosshair drawn on it
get_slice_display_image(vol, cursor, orientation, slice_index) ==
    IF ~vol.loaded
    THEN [status |-> "None"]
    ELSE IF ~IndexInBounds(AxisLength(vol.shape, orientation), slice_index)
    THEN [status |-> "IndexError"]
    ELSE LET s == slice_img(vol.array, vol.shape, orientation, slice_index)
         IN  [status |-> "ok", h_img |-> s.rows, w_img |-> s.cols, slice |-> s.at,
              crosshair |-> crosshair(vol.shape, cursor, orientation)]

\* int(255 * (n / 2) / (w + 1e-5)) for integers n and w, exactly.  With
\* a = |255 * n| = q * 2|w| + r, the quotient a / (2|w| + 2/EpsInverse) of a
\* positive w truncates to q when q * 2/EpsInverse <= r and to q - 1 otherwise;
\* the quotient a / (2|w| - 2/EpsInverse) of a negative w truncates to q + 1
\* when (q + 1) * 2/EpsInverse >= 2|w| - r and to q otherwise.  (The float64
\* result is off the exact one by far less than the exact one is off an
\* integer, so the truncations agree.)
scale255(n, w) ==
    LET a == IF n >= 0 THEN 255 * n ELSE -(255 * n)
        m == IF w >= 0 THEN w ELSE -w
        q == a \div (2 * m)
        r == a % (2 * m)
        size == IF w > 0 THEN (IF 2 * q <= r * EpsInverse THEN q ELSE q - 1)
                ELSE IF (2 * m - r) * EpsInverse <= 2 * (q + 1) THEN q + 1 ELSE q
    IN  IF w = 0 THEN n * 255 * (EpsInverse \div 2)
        ELSE IF (n >= 0) = (w > 0) THEN size ELSE -size

\* the window mapping without its np.clip
window_norm255_unclipped(v, ww, wl) ==
    scale255(IF ww > 0 THEN 2 * v - (2 * wl - ww)
             ELSE np_clip(2 * v, 2 * wl - ww, 2 * wl + ww) - (2 * wl - ww), ww)

\* MainViewModel.get_slice_display_image, lines 246-249 and the truncation of
\* line 250, for one element v of the slice: low = wl - ww / 2 and
\* high = wl + ww / 2 are kept doubled, the element is clipped, low is
\* subtracted, and the difference is divided by high - low + 1e-5 and scaled
\* by 255
window_norm255(v, ww, wl) ==
    LET low2 == 2 * wl - ww
        high2 == 2 * wl + ww
        clipped2 == np_clip(2 * v, low2, high2)
    IN  scale255(clipped2 - low2, ww)

\* .astype(np.uint8) of a float that truncates to n: n itself when uint8 holds
\* it; otherwise the conversion is undefined and yields any uint8
astype_uint8(n) == IF n \in 0 .. 255 THEN {n} ELSE 0 .. 255

\* MainViewModel.get_current_cursor_slice_indices
get_current_cursor_slice_indices(vol, cursor) ==
    IF ~vol.loaded THEN <<0, 0, 0>> ELSE cursor

\* screen_to_voxel without its three np.clip calls
screen_to_voxel_unclamped(vol, cursor, orientation, slice_index, local_x, local_y, display_width, display_height, shape_hw) ==
    IF ~vol.loaded THEN None
    ELSE IF \/ shape_hw[1] <= 0 \/ shape_hw[2] <= 0
            \/ display_width <= 0 \/ display_height <= 0
    THEN None
    ELSE LET img_x == int_div(local_x * shape_hw[2], display_width)
             img_y == int_div(local_y * shape_hw[1], display_height)
         IN  IF orientation = "axial" THEN <<slice_index, img_y, img_x>>
             ELSE IF orientation = "coronal"
             THEN <<vol.shape[1] - 1 - img_y, slice_index, img_x>>
             ELSE <<vol.shape[1] - 1 - img_y, img_x, slice_index>>

\* screen_to_voxel that tests the display's size but not the slice's
screen_to_voxel_unchecked_slice(vol, cursor, orientation, slice_index, local_x, local_y, display_width, display_height, shape_hw) ==
    IF ~vol.loaded THEN None
    ELSE IF display_width <= 0 \/ display_height <= 0 THEN None
    ELSE LET img_x == int_div(local_x * shape_hw[2], display_width)
             img_y == int_div(local_y * shape_hw[1], display_height)
             zyx == IF orientation = "axial" THEN <<slice_index, img_y, img_x>>
                    ELSE IF orientation = "coronal"
                    THEN <<vol.shape[1] - 1 - img_y, slice_index, img_x>>
                    ELSE <<vol.shape[1] - 1 - img_y, img_x, slice_index>>
         IN  <<np_clip(zyx[1], 0, vol.shape[1] - 1),
               np_clip(zyx[2], 0, vol.shape[2] - 1),
               np_clip(zyx[3], 0, vol.shape[3] - 1)>>

\* MainViewModel.screen_to_voxel
screen_to_voxel(vol, cursor, orientation, slice_index, local_x, local_y, display_width, display_height, shape_hw) ==
    IF ~vol.loaded THEN None
    ELSE LET h_img == shape_hw[1]
             w_img == shape_hw[2]
         IN  IF h_img <= 0 \/ w_img <= 0 \/ display_width <= 0 \/ display_height <= 0
             THEN None
             ELSE LET img_x == int_div(local_x * w_img, display_width)
                      img_y == int_div(local_y * h_img, display_height)
                      d == vol.shape[1]
                      h == vol.shape[2]
                      w == vol.shape[3]
                      zyx == IF orientation = "axial"
                             THEN <<slice_index, img_y, img_x>>
                             ELSE IF orientation = "coronal"
                             THEN <<d - 1 - img_y, slice_index, img_x>>
                             ELSE <<d - 1 - img_y, img_x, slice_index>>
                  IN  <<np_clip(zyx[1], 0, d - 1),
                        np_clip(zyx[2], 0, h - 1),
                        np_clip(zyx[3], 0, w - 1)>>

\* MainViewModel.get_slice_index_range
get_slice_index_range(vol, orientation) ==
    IF ~vol.loaded THEN <<0, 0>>
    ELSE <<0, AxisLength(vol.shape, orientation) - 1>>

\* MainViewModel.get_initial_slice_index
get_initial_slice_index(vol, cursor, orientation) ==
    IF ~vol.loaded THEN 0
    ELSE np_clip(AxisCoord(cursor, orientation), 0,
                 AxisLength(vol.shape, orientation) - 1)

\* MainViewModel.get_slice_display_image, lines 277-282: the pen's colour
crosshair_color(orientation) ==
    IF orientation = "axial" THEN <<255, 0, 0>>
    ELSE IF orientation = "coronal" THEN <<0, 255, 0>>
    ELSE <<0, 160, 255>>

\* MainViewModel.get_slice_display_image, lines 253-288: the (r, g, b) of the
\* pixel p = (row, col) of the RGB32 image made from the grey value gray, once
\* the two lines of the crosshair cross = (row, col) are drawn
crosshair_pixel(gray, cross, orientation, p) ==
    IF cross # None /\ (p[1] = cross[1] \/ p[2] = cross[2])
    THEN crosshair_color(orientation)
    ELSE <<gray, gray, gray>>

\* the slice of the mask as indexed from the array, the coronal one without
\* the flip of the intensity slice
mask_slice_unflipped(mask, orientation, slice_index) ==
    IF orientation = "axial" THEN plane_z(mask.array, mask.shape, slice_index)
    ELSE IF orientation = "coronal" THEN plane_y(mask.array, mask.shape, slice_index)
    ELSE np_rot90_cw(np_fliplr(np_rot90_ccw(plane_x(mask.array, mask.shape,
                                                    slice_index))))

\* MainViewModel.get_slice_display_image, lines 294-302: the slice of the mask
\* with the orientation's rotation and flips applied
mask_slice(mask, orientation, slice_index) ==
    IF orientation = "axial" THEN plane_z(mask.array, mask.shape, slice_index)
    ELSE IF orientation = "coronal"
    THEN np_flipud(plane_y(mask.array, mask.shape, slice_index))
    ELSE np_rot90_cw(np_fliplr(np_rot90_ccw(plane_x(mask.array, mask.shape,
                                                    slice_index))))

\* MainViewModel.get_slice_display_image, lines 310-312: the pixel rgb mixed
\* with red at the opacity (in hundredths), each channel truncated by int().
\* The quotient is the float64 one for the opacities float64 holds exactly
\* (the quarters), for which every product and sum of lines 310-312 is exact.
blend(rgb, opacity) ==
    <<(rgb[1] * (OpacityScale - opacity) + 255 * opacity) \div OpacityScale,
      (rgb[2] * (OpacityScale - opacity)) \div OpacityScale,
      (rgb[3] * (OpacityScale - opacity)) \div OpacityScale>>

\* the overlay loop mixing every pixel with red, whatever its label
overlay_pixel_any_label(rgb, label, opacity) ==
    blend(rgb, opacity)

\* MainViewModel.get_slice_display_image, lines 305-313, for one pixel of the
\* image that the mask slice covers: label is the mask slice's element there
overlay_pixel(rgb, label, opacity) ==
    IF label > 0 THEN blend(rgb, opacity) ELSE rgb

\* MainViewModel.build_airway_mesh: contour is what grid.contour does on the
\* thresholded mask, return the mesh ("mesh") or raise ("exception"); the
\* opacity is in hundredths
build_airway_mesh(vol, contour) ==
    IF ~vol.loaded THEN None
    ELSE IF contour = "mesh"
    THEN [data |-> "mesh", color |-> "#00FFFF", opacity |-> 60]
    ELSE None

\* MainViewModel.build_3d_volume_actor: contour is what grid.contour does on
\* the volume; the first field tells MainWindow._update_3d_view to add a mesh
\* ("clear") or a volume ("volume")
build_3d_volume_actor(vol, contour) ==
    IF ~vol.loaded THEN None
    ELSE IF contour = "mesh"
    THEN [mode |-> "clear", data |-> "contour", color |-> "#808080", opacity |-> 50]
    ELSE [mode |-> "volume", data |-> "grid", color |-> "gray", opacity |-> 10]

-----------------------------------------------------------------------------
(* SliceView and MainWindow: refreshing the views                           *)
(*                                                                          *)
(* A slot walks the views in ViewOrder.  The walk carries the views' state  *)
(* as a record [current_index, img_shape_hw, shown_window, window, raised,   *)
(* calls]: window is the ViewModel's window setting at the time of the      *)
(* walk, which get_slice_display_image reads (lines 230-231) for the image  *)
(* it returns; calls collects the get_slice_display_image calls made.       *)
(* An exception ends the slot, so the views after the failing one are left  *)
(* as they were.                                                            *)

\* SliceView._refresh_display
_refresh_display(st, vol, cursor, v) ==
    IF ~vol.loaded THEN [st EXCEPT !.shown_window[v] = None]
    ELSE LET qimg == get_slice_display_image(vol, cursor, v, st.current_index[v])
             call == [view |-> v, slice_index |-> st.current_index[v],
                      stale |-> \E u \in Orientations \ {v} :
                                    st.current_index[u] >= AxisLength(vol.shape, u)]
             s == [st EXCEPT !.calls = @ \cup {call}]
         IN  IF qimg.status = "IndexError" THEN [s EXCEPT !.raised = "IndexError"]
             ELSE IF qimg.status = "None" THEN s
             ELSE [s EXCEPT !.img_shape_hw[v] = <<qimg.h_img, qimg.w_img>>,
                            !.shown_window[v] = st.window]

\* set_volume_loaded that redraws the view at the slice index it held
set_volume_loaded_keeping_index(st, vol, cursor, v) ==
    _refresh_display(st, vol, cursor, v)

\* SliceView.set_volume_loaded
set_volume_loaded(st, vol, cursor, v) ==
    _refresh_display(
        [st EXCEPT !.current_index[v] = get_initial_slice_index(vol, cursor, v)],
        vol, cursor, v)

\* refresh_from_cursor that redraws the view without moving its slice index
refresh_from_cursor_keeping_index(st, vol, cursor, v) ==
    _refresh_display(st, vol, cursor, v)

\* SliceView.refresh_from_cursor
refresh_from_cursor(st, vol, cursor, v) ==
    LET zyx == get_current_cursor_slice_indices(vol, cursor)
    IN  _refresh_display([st EXCEPT !.current_index[v] = AxisCoord(zyx, v)],
                         vol, cursor, v)

\* one call of a view's method, skipped once an exception is in flight
CallView(method, st, vol, cursor, v) ==
    CHOOSE r \in {IF s.raised # "none" THEN s
                  ELSE IF method = "set_volume_loaded"
                  THEN set_volume_loaded(s, vol, cursor, v)
                  ELSE IF method = "refresh_from_cursor"
                  THEN refresh_from_cursor(s, vol, cursor, v)
                  ELSE _refresh_display(s, vol, cursor, v) : s \in {st}} : TRUE

\* one call per view, in ViewOrder, stopping at the first exception
ForEachView(method, st, vol, cursor) ==
    CallView(method,
             CallView(method,
                      CallView(method, st, vol, cursor, ViewOrder[1]),
                      vol, cursor, ViewOrder[2]),
             vol, cursor, ViewOrder[3])

\* MainWindow._sync_window_to_views and MainWindow._on_mask_changed
_sync_window_to_views(st, vol, cursor) ==
    ForEachView("refresh_display", st, vol, cursor)

\* MainWindow._on_cursor_changed
_on_cursor_changed(st, vol, cursor) ==
    ForEachView("refresh_from_cursor", st, vol, cursor)

\* MainWindow._on_volume_loaded (the 3D view it updates last is not modelled)
_on_volume_loaded(st, vol, cursor) ==
    _sync_window_to_views(ForEachView("set_volume_loaded", st, vol, cursor),
                          vol, cursor)

\* the views' state as a handler finds it, and as it leaves it
ViewState ==
    [current_index |-> current_index, img_shape_hw |-> img_shape_hw,
     shown_window |-> shown_window, window |-> <<window_width, window_level>>,
     raised |-> "none", calls |-> {}]

SetViews(st) ==
    \E s \in {st} :
        /\ current_index' = s.current_index
        /\ img_shape_hw' = s.img_shape_hw
        /\ shown_window' = s.shown_window
        /\ raised' = s.raised
        /\ render_calls' = s.calls

-----------------------------------------------------------------------------
(* MainViewModel: commands, each with the slots its signals run *)

\* set_cursor without its three np.clip calls
set_cursor_unclipped(z, y, x) ==
    IF ~volume.loaded
    THEN /\ signals' = {}
         /\ raised' = "none"
         /\ render_calls' = {}
         /\ UNCHANGED <<current_cursor, current_index, img_shape_hw, shown_window>>
    ELSE /\ current_cursor' = <<z, y, x>>
         /\ signals' = {"cursor_changed"}
         /\ SetViews(_on_cursor_changed(ViewState, volume, <<z, y, x>>))

\* set_cursor without its test for a missing volume: it clips against the
\* shape (0, 0, 0) and emits its signal
set_cursor_unguarded(z, y, x) ==
    LET c == <<np_clip(z, 0, volume.shape[1] - 1), np_clip(y, 0, volume.shape[2] - 1),
               np_clip(x, 0, volume.shape[3] - 1)>>
    IN  /\ current_cursor' = c
        /\ signals' = {"cursor_changed"}
        /\ SetViews(_on_cursor_changed(ViewState, volume, c))

\* MainViewModel.set_cursor, and MainWindow._on_cursor_changed on its signal
set_cursor(z, y, x) ==
    IF ~volume.loaded
    THEN /\ signals' = {}
         /\ raised' = "none"
         /\ render_calls' = {}
         /\ UNCHANGED <<current_cursor, current_index, img_shape_hw, shown_window>>
    ELSE LET d == volume.shape[1]
             h == volume.shape[2]
             w == volume.shape[3]
             c == <<np_clip(z, 0, d - 1), np_clip(y, 0, h - 1), np_clip(x, 0, w - 1)>>
         IN  /\ current_cursor' = c
             /\ signals' = {"cursor_changed"}
             /\ SetViews(_on_cursor_changed(ViewState, volume, c))

\* the two loops without their bounds test
disc_in_plane_unbounded(ca, cb, r, na, nb) ==
    {p \in (ca - r .. ca + r) \X (cb - r .. cb + r) :
        (p[1] - ca) * (p[1] - ca) + (p[2] - cb) * (p[2] - cb) <= r * r}

\* MainViewModel.draw_on_mask's two loops around the centre (ca, cb) of a plane
\* of na x nb voxels: the (a, b) with (a - ca)^2 + (b - cb)^2 <= r^2 that pass
\* the bounds test 0 <= a < na and 0 <= b < nb
disc_in_plane(ca, cb, r, na, nb) ==
    {p \in (Max2(ca - r, 0) .. Min2(ca + r, na - 1)) \X
            (Max2(cb - r, 0) .. Min2(cb + r, nb - 1)) :
        (p[1] - ca) * (p[1] - ca) + (p[2] - cb) * (p[2] - cb) <= r * r}

\* MainViewModel.draw_on_mask, lines 188-208: the mask subscripts the loops
\* assign to, as written (not yet resolved by numpy)
draw_targets(orientation, slice_index, vox, r, shape) ==
    IF orientation = "axial"
    THEN {<<vox[1], p[1], p[2]>> : p \in disc_in_plane(vox[2], vox[3], r, shape[2], shape[3])}
    ELSE IF orientation = "coronal"
    THEN {<<p[1], slice_index, p[2]>> : p \in disc_in_plane(vox[1], vox[3], r, shape[1], shape[3])}
    ELSE {<<p[1], p[2], slice_index>> : p \in disc_in_plane(vox[1], vox[2], r, shape[1], shape[2])}

\* an assignment that flips the label of every subscript of targets
mask_assign_toggling(mask, targets) ==
    IF \E t \in targets : \E i \in 1 .. 3 : ~IndexInBounds(mask.shape[i], t[i])
    THEN [mask |-> mask, raised |-> "IndexError"]
    ELSE [mask |-> [mask EXCEPT !.array =
                       [v \in DOMAIN mask.array |->
                           IF \E t \in targets :
                                  \A i \in 1 .. 3 : np_index(mask.shape[i], t[i]) = v[i]
                           THEN 1 - mask.array[v] ELSE mask.array[v]]],
          raised |-> "none"]

\* mask[a, b, c] = 1 for every subscript of targets; an IndexError on the first
\* subscript numpy rejects (all of a call's subscripts share the fixed axis, so
\* either the first one fails or none does)
mask_assign(mask, targets) ==
    IF \E t \in targets : \E i \in 1 .. 3 : ~IndexInBounds(mask.shape[i], t[i])
    THEN [mask |-> mask, raised |-> "IndexError"]
    ELSE [mask |-> [mask EXCEPT !.array =
                       [v \in DOMAIN mask.array |->
                           IF \E t \in targets :
                                  \A i \in 1 .. 3 : np_index(mask.shape[i], t[i]) = v[i]
                           THEN 1 ELSE mask.array[v]]],
          raised |-> "none"]

\* MainViewModel.draw_on_mask, and MainWindow._on_mask_changed on its signal
draw_on_mask(orientation, slice_index, local_x, local_y, display_width, display_height, shape_hw) ==
    \E vox \in {screen_to_voxel(volume, current_cursor, orientation, slice_index,
                                local_x, local_y, display_width, display_height,
                                shape_hw)} :
        IF vox = None \/ ~mask_image.present
        THEN /\ signals' = {}
             /\ raised' = "none"
             /\ render_calls' = {}
             /\ UNCHANGED <<mask_image, current_index, img_shape_hw, shown_window>>
        ELSE \E res \in {mask_assign(mask_image, t) : t \in
                            {draw_targets(orientation, slice_index, vox,
                                          brush_radius, mask_image.shape)}} :
                 IF res.raised # "none"
                 THEN /\ signals' = {}
                      /\ raised' = res.raised
                      /\ render_calls' = {}
                      /\ UNCHANGED <<mask_image, current_index, img_shape_hw, shown_window>>
                 ELSE /\ mask_image' = res.mask
                      /\ signals' = {"mask_changed"}
                      /\ SetViews(_sync_window_to_views(ViewState, volume,
                                                         current_cursor))

\* set_window that stores the setting and emits nothing
set_window_silent(ww, wl) ==
    /\ window_width' = ww
    /\ window_level' = wl
    /\ signals' = {}
    /\ raised' = "none"
    /\ render_calls' = {}
    /\ UNCHANGED <<slider_ww, slider_wl, current_index, img_shape_hw, shown_window>>

\* MainViewModel.set_window, and MainWindow._on_window_changed on its signal
set_window(ww, wl) ==
    /\ window_width' = ww
    /\ window_level' = wl
    /\ signals' = {"window_changed"}
    /\ slider_ww' = np_clip(ww, SliderMinWidth, SliderMaxWidth)  \* QSlider.setValue
    /\ slider_wl' = np_clip(wl, SliderMinLevel, SliderMaxLevel)
    /\ SetViews(_sync_window_to_views([ViewState EXCEPT !.window = <<ww, wl>>],
                                       volume, current_cursor))

\* load_dicom_directory that allocates a mask only when there is none yet
load_dicom_directory_keeping_mask(vol) ==
    LET c == <<vol.shape[1] \div 2, vol.shape[2] \div 2, vol.shape[3] \div 2>>
    IN  /\ volume' = vol
        /\ current_cursor' = c
        /\ mask_image' = IF mask_image.present THEN mask_image
                          ELSE [present |-> TRUE, shape |-> vol.shape,
                                array |-> np_zeros(vol.shape)]
        /\ signals' = {"status_message", "patient_info_changed", "volume_loaded"}
        /\ SetViews(_on_volume_loaded(ViewState, vol, c))

\* load_dicom_directory that centres the cursor on the first load only and
\* re-clamps it on a reload
load_dicom_directory_keeping_cursor(vol) ==
    LET c == IF volume.loaded
             THEN <<np_clip(current_cursor[1], 0, vol.shape[1] - 1),
                    np_clip(current_cursor[2], 0, vol.shape[2] - 1),
                    np_clip(current_cursor[3], 0, vol.shape[3] - 1)>>
             ELSE <<vol.shape[1] \div 2, vol.shape[2] \div 2, vol.shape[3] \div 2>>
    IN  /\ volume' = vol
        /\ current_cursor' = c
        /\ mask_image' = [present |-> TRUE, shape |-> vol.shape,
                          array |-> np_zeros(vol.shape)]
        /\ signals' = {"status_message", "patient_info_changed", "volume_loaded"}
        /\ SetViews(_on_volume_loaded(ViewState, vol, c))

\* MainViewModel.load_dicom_directory for a reader that returned the volume
\* vol, and MainWindow._on_volume_loaded on its signal
load_dicom_directory(vol) ==
    LET d == vol.shape[1]
        h == vol.shape[2]
        w == vol.shape[3]
        c == <<d \div 2, h \div 2, w \div 2>>
    IN  /\ volume' = vol
        /\ current_cursor' = c
        /\ mask_image' = [present |-> TRUE, shape |-> <<d, h, w>>,
                          array |-> np_zeros(<<d, h, w>>)]
        /\ signals' = {"status_message", "patient_info_changed", "volume_loaded"}
        /\ SetViews(_on_volume_loaded(ViewState, vol, c))

\* set_tool that stores whatever identifier it is given
set_tool_accepting_any(tool) ==
    current_tool' = tool

\* MainViewModel.set_tool
set_tool(tool) ==
    current_tool' = IF tool \in {"select", "brush"} THEN tool ELSE current_tool

\* MainViewModel.set_brush_radius
set_brush_radius(radius) ==
    brush_radius' = Max2(MinBrushRadius, Min2(MaxBrushRadius, radius))

\* MainViewModel.set_overlay_opacity, the opacity in hundredths
set_overlay_opacity(opacity) ==
    overlay_opacity' = Max2(0, Min2(OpacityScale, opacity))

-----------------------------------------------------------------------------
(* SliceView: event handlers                                                *)
(*                                                                          *)
(* A pointer position is given as SliceView._pos_in_image_label maps it:    *)
(* relative to the image label.  The label's size is the widget's at the    *)
(* time of the event, an input like the position.                           *)

\* _on_left_click that maps the click on the cursor's slice, not on the slice
\* the view shows
_on_left_click_on_cursor_slice(v, pos, label) ==
    LET local_x == pos[1]
        local_y == pos[2]
        label_w == Max2(label[1], 1)
        label_h == Max2(label[2], 1)
        vox == screen_to_voxel(volume, current_cursor, v,
                               AxisCoord(current_cursor, v),
                               local_x, local_y, label_w, label_h, img_shape_hw[v])
    IN  IF local_x < 0 \/ local_y < 0 \/ local_x >= label_w \/ local_y >= label_h
        THEN /\ signals' = {}
             /\ raised' = "none"
             /\ render_calls' = {}
             /\ UNCHANGED <<current_cursor, current_index, img_shape_hw, shown_window>>
        ELSE IF vox # None
        THEN set_cursor(vox[1], vox[2], vox[3])
        ELSE /\ signals' = {}
             /\ raised' = "none"
             /\ render_calls' = {}
             /\ UNCHANGED <<current_cursor, current_index, img_shape_hw, shown_window>>

\* SliceView._on_left_click
_on_left_click(v, pos, label) ==
    LET local_x == pos[1]
        local_y == pos[2]
        label_w == Max2(label[1], 1)
        label_h == Max2(label[2], 1)
        vox == screen_to_voxel(volume, current_cursor, v, current_index[v],
                               local_x, local_y, label_w, label_h, img_shape_hw[v])
    IN  IF local_x < 0 \/ local_y < 0 \/ local_x >= label_w \/ local_y >= label_h
        THEN /\ signals' = {}
             /\ raised' = "none"
             /\ render_calls' = {}
             /\ UNCHANGED <<current_cursor, current_index, img_shape_hw, shown_window>>
        ELSE IF vox # None
        THEN set_cursor(vox[1], vox[2], vox[3])
        ELSE /\ signals' = {}
             /\ raised' = "none"
             /\ render_calls' = {}
             /\ UNCHANGED <<current_cursor, current_index, img_shape_hw, shown_window>>

\* SliceView._on_brush_draw
_on_brush_draw(v, pos, label) ==
    LET local_x == pos[1]
        local_y == pos[2]
        label_w == Max2(label[1], 1)
        label_h == Max2(label[2], 1)
    IN  IF local_x < 0 \/ local_y < 0 \/ local_x >= label_w \/ local_y >= label_h
        THEN /\ signals' = {}
             /\ raised' = "none"
             /\ render_calls' = {}
             /\ UNCHANGED <<mask_image, current_index, img_shape_hw, shown_window>>
        ELSE draw_on_mask(v, current_index[v], local_x, local_y, label_w, label_h,
                          img_shape_hw[v])

\* a wheelEvent that moves the global cursor along with the view's slice index
wheelEvent_moving_cursor(v, delta) ==
    /\ ev' = <<"wheelEvent", v>>
    /\ ret' = NoCall
    /\ IF ~volume.loaded
       THEN /\ signals' = {}
            /\ raised' = "none"
            /\ render_calls' = {}
            /\ UNCHANGED <<current_cursor, current_index, img_shape_hw, shown_window>>
       ELSE LET step == IF delta > 0 THEN 1 ELSE -1
                range == get_slice_index_range(volume, v)
                index == Max2(range[1], Min2(range[2], current_index[v] + step))
            IN  set_cursor(IF v = "axial" THEN index ELSE current_cursor[1],
                           IF v = "coronal" THEN index ELSE current_cursor[2],
                           IF v = "sagittal" THEN index ELSE current_cursor[3])
    /\ UNCHANGED <<volume, mask_image, window_width, window_level, current_tool,
                   brush_radius, overlay_opacity, drawing, left_press, slider_ww, slider_wl, last_right_pos>>

\* SliceView.wheelEvent
wheelEvent(v, delta) ==
    /\ ev' = <<"wheelEvent", v>>
    /\ ret' = NoCall
    /\ signals' = {}
    /\ IF ~volume.loaded
       THEN /\ raised' = "none"
            /\ render_calls' = {}
            /\ UNCHANGED <<current_index, img_shape_hw, shown_window>>
       ELSE LET step == IF delta > 0 THEN 1 ELSE -1
                range == get_slice_index_range(volume, v)
                index == Max2(range[1], Min2(range[2], current_index[v] + step))
            IN  SetViews(_refresh_display([ViewState EXCEPT !.current_index[v] = index],
                                          volume, current_cursor, v))
    /\ UNCHANGED <<vm_vars, drawing, left_press, slider_ww, slider_wl, last_right_pos>>

\* a mousePressEvent that sets the cursor on every left press, then paints when
\* the brush is active
mousePressEvent_ignoring_tool(v, button, pos, label) ==
    /\ ev' = <<"mousePressEvent", button>>
    /\ ret' = NoCall
    /\ left_press' = IF button = "left" /\ left_press # Unpaired
                     THEN [view |-> v, tool |-> current_tool, loaded |-> volume.loaded]
                     ELSE left_press
    /\ IF button = "left" /\ volume.loaded
       THEN /\ _on_left_click(v, pos, label)
            /\ drawing' = IF current_tool = "brush"
                          THEN [drawing EXCEPT ![v] = TRUE] ELSE drawing
            /\ UNCHANGED <<mask_image, last_right_pos>>
       ELSE /\ drawing' = IF button = "left" THEN [drawing EXCEPT ![v] = FALSE]
                          ELSE drawing
            /\ last_right_pos' = IF button = "right"
                                 THEN [last_right_pos EXCEPT ![v] = pos]
                                 ELSE last_right_pos
            /\ signals' = {}
            /\ raised' = "none"
            /\ render_calls' = {}
            /\ UNCHANGED <<current_cursor, mask_image, current_index, img_shape_hw, shown_window>>
    /\ UNCHANGED <<volume, window_width, window_level, current_tool, brush_radius, overlay_opacity,
                   slider_ww, slider_wl>>

\* SliceView.mousePressEvent
mousePressEvent(v, button, pos, label) ==
    /\ ev' = <<"mousePressEvent", button>>
    /\ ret' = NoCall
    /\ left_press' = IF button = "left" /\ left_press # Unpaired
                     THEN [view |-> v, tool |-> current_tool, loaded |-> volume.loaded]
                     ELSE left_press
    /\ IF button = "left" /\ volume.loaded
       THEN /\ IF current_tool = "brush"
               THEN /\ drawing' = [drawing EXCEPT ![v] = TRUE]
                    /\ _on_brush_draw(v, pos, label)
                    /\ UNCHANGED current_cursor
               ELSE /\ _on_left_click(v, pos, label)
                    /\ UNCHANGED <<drawing, mask_image>>
            /\ UNCHANGED last_right_pos
       ELSE /\ drawing' = IF button = "left" THEN [drawing EXCEPT ![v] = FALSE]
                          ELSE drawing
            /\ last_right_pos' = IF button = "right"
                                 THEN [last_right_pos EXCEPT ![v] = pos]
                                 ELSE last_right_pos
            /\ signals' = {}
            /\ raised' = "none"
            /\ render_calls' = {}
            /\ UNCHANGED <<current_cursor, mask_image, current_index, img_shape_hw, shown_window>>
    /\ UNCHANGED <<volume, window_width, window_level, current_tool, brush_radius, overlay_opacity,
                   slider_ww, slider_wl>>

\* SliceView.mouseReleaseEvent
mouseReleaseEvent(v, button) ==
    /\ ev' = <<"mouseReleaseEvent", button>>
    /\ ret' = NoCall
    /\ left_press' = IF button = "left" /\ left_press # Unpaired
                     THEN NoPress ELSE left_press
    /\ drawing' = IF button = "left" THEN [drawing EXCEPT ![v] = FALSE] ELSE drawing
    /\ signals' = {}
    /\ raised' = "none"
    /\ render_calls' = {}
    /\ UNCHANGED <<vm_vars, current_index, img_shape_hw, shown_window, slider_ww,
                   slider_wl, last_right_pos>>

\* a mouseMoveEvent that paints on every left-button move with the brush
\* active, whether or not a brush press began the drag
mouseMoveEvent_without_drawing_flag(v, buttons, pos, label) ==
    /\ ev' = <<"mouseMoveEvent", IF "right" \in buttons THEN "right"
                                 ELSE IF "left" \in buttons THEN "left" ELSE "none">>
    /\ ret' = NoCall
    /\ IF "right" \in buttons
       THEN LET last == IF last_right_pos[v] = None THEN pos ELSE last_right_pos[v]
                dx == pos[1] - last[1]
                dy == pos[2] - last[2]
                ww == np_clip(window_width + dx * DragGain, MinWindowWidth,
                              MaxWindowWidth)
                wl == np_clip(window_level - dy * DragGain, MinWindowLevel,
                              MaxWindowLevel)
            IN  /\ last_right_pos' = [last_right_pos EXCEPT ![v] = pos]
                /\ set_window(ww, wl)
                /\ UNCHANGED <<mask_image>>
       ELSE /\ IF "left" \in buttons /\ current_tool = "brush"
               THEN _on_brush_draw(v, pos, label)
               ELSE /\ signals' = {}
                    /\ raised' = "none"
                    /\ render_calls' = {}
                    /\ UNCHANGED <<mask_image, current_index, img_shape_hw, shown_window>>
            /\ UNCHANGED <<window_width, window_level, slider_ww, slider_wl,
                           last_right_pos>>
    /\ UNCHANGED <<volume, current_cursor, current_tool, brush_radius, overlay_opacity, drawing, left_press>>

\* SliceView.mouseMoveEvent; buttons is the set of buttons held down
mouseMoveEvent(v, buttons, pos, label) ==
    /\ ev' = <<"mouseMoveEvent", IF "right" \in buttons THEN "right"
                                 ELSE IF "left" \in buttons THEN "left" ELSE "none">>
    /\ ret' = NoCall
    /\ IF "right" \in buttons
       THEN LET last == IF last_right_pos[v] = None THEN pos ELSE last_right_pos[v]
                dx == pos[1] - last[1]
                dy == pos[2] - last[2]
                ww == np_clip(window_width + dx * DragGain, MinWindowWidth,
                              MaxWindowWidth)
                wl == np_clip(window_level - dy * DragGain, MinWindowLevel,
                              MaxWindowLevel)
            IN  /\ last_right_pos' = [last_right_pos EXCEPT ![v] = pos]
                /\ set_window(ww, wl)
                /\ UNCHANGED <<mask_image>>
       ELSE /\ IF "left" \in buttons /\ drawing[v] /\ current_tool = "brush"
               THEN _on_brush_draw(v, pos, label)
               ELSE /\ signals' = {}
                    /\ raised' = "none"
                    /\ render_calls' = {}
                    /\ UNCHANGED <<mask_image, current_index, img_shape_hw, shown_window>>
            /\ UNCHANGED <<window_width, window_level, slider_ww, slider_wl,
                           last_right_pos>>
    /\ UNCHANGED <<volume, current_cursor, current_tool, brush_radius, overlay_opacity, drawing, left_press>>

-----------------------------------------------------------------------------
(* MainWindow: menu, toolbar and slider slots *)

\* _on_open_dicom over a load that drops the volume and its mask before it
\* reads the new series
_on_open_dicom_dropping_volume(outcome, vol) ==
    /\ ev' = <<"_on_open_dicom", outcome>>
    /\ ret' = NoCall
    /\ IF outcome = "cancel"
       THEN /\ signals' = {}
            /\ raised' = "none"
            /\ render_calls' = {}
            /\ UNCHANGED <<volume, current_cursor, mask_image, current_index,
                           img_shape_hw, shown_window>>
       ELSE IF outcome = "fail"
       THEN /\ volume' = NoVolume
            /\ mask_image' = NoMask
            /\ signals' = {"status_message"}
            /\ raised' = "none"
            /\ render_calls' = {}
            /\ UNCHANGED <<current_cursor, current_index, img_shape_hw, shown_window>>
       ELSE load_dicom_directory(vol)
    /\ UNCHANGED <<window_width, window_level, current_tool, brush_radius, overlay_opacity, drawing, left_press,
                   slider_ww, slider_wl, last_right_pos>>

\* MainWindow._on_open_dicom: the dialog is cancelled ("cancel"), the reader
\* fails ("fail"), or the reader returns the volume vol ("ok")
_on_open_dicom(outcome, vol) ==
    /\ ev' = <<"_on_open_dicom", outcome>>
    /\ ret' = NoCall
    /\ IF outcome = "cancel"
       THEN /\ signals' = {}
            /\ raised' = "none"
            /\ render_calls' = {}
            /\ UNCHANGED <<volume, current_cursor, mask_image, current_index,
                           img_shape_hw, shown_window>>
       ELSE IF outcome = "fail"
       THEN /\ signals' = {"status_message"}
            /\ raised' = "none"
            /\ render_calls' = {}
            /\ UNCHANGED <<volume, current_cursor, mask_image, current_index,
                           img_shape_hw, shown_window>>
       ELSE load_dicom_directory(vol)
    /\ UNCHANGED <<window_width, window_level, current_tool, brush_radius, overlay_opacity, drawing, left_press,
                   slider_ww, slider_wl, last_right_pos>>

\* MainWindow._on_tool_triggered
_on_tool_triggered(tool) ==
    /\ ev' = <<"_on_tool_triggered", tool>>
    /\ ret' = NoCall
    /\ set_tool(tool)
    /\ signals' = {}
    /\ raised' = "none"
    /\ render_calls' = {}
    /\ UNCHANGED <<volume, mask_image, current_cursor, window_width, window_level,
                   brush_radius, overlay_opacity, view_vars>>

\* MainWindow._on_brush_size_changed
_on_brush_size_changed(value) ==
    /\ ev' = <<"_on_brush_size_changed">>
    /\ ret' = NoCall
    /\ set_brush_radius(value)
    /\ signals' = {}
    /\ raised' = "none"
    /\ render_calls' = {}
    /\ UNCHANGED <<volume, mask_image, current_cursor, window_width, window_level,
                   current_tool, overlay_opacity, view_vars>>

\* MainWindow._on_overlay_opacity_changed: the slider's value is the opacity
\* in hundredths
_on_overlay_opacity_changed(value) ==
    /\ ev' = <<"_on_overlay_opacity_changed">>
    /\ ret' = NoCall
    /\ set_overlay_opacity(value)
    /\ signals' = {}
    /\ SetViews(_sync_window_to_views(ViewState, volume, current_cursor))
    /\ UNCHANGED <<volume, mask_image, current_cursor, window_width, window_level,
                   current_tool, brush_radius, drawing, left_press, slider_ww, slider_wl,
                   last_right_pos>>

\* MainWindow._on_slider_window_changed after the user moved one of the two
\* sliders to value
_on_slider_window_changed(slider, value) ==
    /\ ev' = <<"_on_slider_window_changed">>
    /\ ret' = NoCall
    /\ set_window(IF slider = "ww" THEN value ELSE slider_ww,
                  IF slider = "wl" THEN value ELSE slider_wl)
    /\ UNCHANGED <<volume, mask_image, current_cursor, current_tool, brush_radius, overlay_opacity,
                   drawing, left_press, last_right_pos>>

-----------------------------------------------------------------------------
(* Direct calls of MainViewModel's public methods *)

\* MainViewModel.set_cursor(z, y, x)
call_set_cursor(z, y, x) ==
    /\ ev' = <<"set_cursor",
               IF ~volume.loaded THEN "no_volume"
               ELSE IF <<z, y, x>> \in Voxels(volume.shape) THEN "in_range"
               ELSE "out_of_range">>
    /\ set_cursor(z, y, x)
    /\ ret' = NoCall
    /\ UNCHANGED <<volume, mask_image, window_width, window_level, current_tool,
                   brush_radius, overlay_opacity, drawing, left_press, slider_ww, slider_wl, last_right_pos>>

\* MainViewModel.set_window(window_width, window_level)
call_set_window(ww, wl) ==
    /\ ev' = <<"set_window">>
    /\ set_window(ww, wl)
    /\ ret' = [fn |-> "set_window", args |-> <<ww, wl>>]
    /\ UNCHANGED <<volume, mask_image, current_cursor, current_tool, brush_radius, overlay_opacity,
                   drawing, left_press, last_right_pos>>

\* MainViewModel.get_slice_display_image(orientation, slice_index, ...), looked
\* at in one element p of slice_uint8 (line 250)
call_get_slice_display_image_pixel(orientation, slice_index, p) ==
    LET qimg == get_slice_display_image(volume, current_cursor, orientation,
                                        slice_index)
    IN  /\ qimg.status = "ok"
        /\ p \in DOMAIN qimg.slice
        /\ ev' = <<"get_slice_display_image">>
        /\ \E g \in astype_uint8(window_norm255(qimg.slice[p], window_width,
                                                 window_level)) :
               ret' = [fn |-> "slice_uint8", args |-> <<orientation, slice_index, p>>,
                       intensity |-> qimg.slice[p], out |-> g]
        /\ signals' = {}
        /\ raised' = "none"
        /\ render_calls' = {}
        /\ UNCHANGED <<vm_vars, view_vars>>

\* MainViewModel.set_tool(tool)
call_set_tool(tool) ==
    /\ ev' = <<"set_tool", tool>>
    /\ set_tool(tool)
    /\ ret' = NoCall
    /\ signals' = {}
    /\ raised' = "none"
    /\ render_calls' = {}
    /\ UNCHANGED <<volume, mask_image, current_cursor, window_width, window_level,
                   brush_radius, overlay_opacity, view_vars>>

\* MainViewModel.screen_to_voxel(...)
call_screen_to_voxel(orientation, slice_index, local_x, local_y, display_width, display_height, shape_hw) ==
    /\ ev' = <<"screen_to_voxel">>
    /\ ret' = [fn |-> "screen_to_voxel",
               args |-> <<orientation, slice_index, local_x, local_y,
                          display_width, display_height, shape_hw>>,
               out |-> screen_to_voxel(volume, current_cursor, orientation,
                                       slice_index, local_x, local_y,
                                       display_width, display_height, shape_hw)]
    /\ signals' = {}
    /\ raised' = "none"
    /\ render_calls' = {}
    /\ UNCHANGED <<vm_vars, view_vars>>

\* SliceView._on_left_click(pos), called on the view v
call_on_left_click(v, pos, label) ==
    /\ ev' = <<"_on_left_click", v>>
    /\ _on_left_click(v, pos, label)
    /\ ret' = [fn |-> "_on_left_click", args |-> <<v, pos, label>>,
               before |-> current_cursor]
    /\ UNCHANGED <<volume, mask_image, window_width, window_level, current_tool,
                   brush_radius, overlay_opacity, drawing, left_press, slider_ww, slider_wl, last_right_pos>>

\* get_slice_display_image whose QImage shares the volume array's memory, so
\* that the crosshair is drawn into the voxel under the cursor
call_get_slice_display_image_in_place(orientation, slice_index) ==
    LET qimg == get_slice_display_image(volume, current_cursor, orientation,
                                        slice_index)
    IN  /\ ev' = <<"get_slice_display_image">>
        /\ ret' = [fn |-> "get_slice_display_image",
                   args |-> <<orientation, slice_index>>,
                   out |-> qimg]
        /\ signals' = {}
        /\ raised' = IF qimg.status = "IndexError" THEN "IndexError" ELSE "none"
        /\ render_calls' = {}
        /\ volume' = IF qimg.status = "ok" /\ qimg.crosshair # None
                     THEN [volume EXCEPT !.array[current_cursor] = 255]
                     ELSE volume
        /\ UNCHANGED <<mask_image, current_cursor, window_width, window_level,
                       current_tool, brush_radius, overlay_opacity, view_vars>>

\* MainViewModel.get_slice_display_image(orientation, slice_index, ...)
call_get_slice_display_image(orientation, slice_index) ==
    LET qimg == get_slice_display_image(volume, current_cursor, orientation,
                                        slice_index)
    IN  /\ ev' = <<"get_slice_display_image">>
        /\ ret' = [fn |-> "get_slice_display_image",
                   args |-> <<orientation, slice_index>>,
                   out |-> qimg]
        /\ signals' = {}
        /\ raised' = IF qimg.status = "IndexError" THEN "IndexError" ELSE "none"
        /\ render_calls' = {}
        /\ UNCHANGED <<vm_vars, view_vars>>

\* MainViewModel.draw_on_mask(...)
call_draw_on_mask(orientation, slice_index, local_x, local_y, display_width, display_height, shape_hw) ==
    /\ ev' = <<"draw_on_mask">>
    /\ draw_on_mask(orientation, slice_index, local_x, local_y,
                    display_width, display_height, shape_hw)
    /\ ret' = [fn |-> "draw_on_mask",
               args |-> <<orientation, slice_index, local_x, local_y,
                          display_width, display_height, shape_hw>>,
               out |-> None,
               before |-> mask_image,
               first |-> ret = NoCall]
    /\ UNCHANGED <<volume, current_cursor, window_width, window_level,
                   current_tool, brush_radius, overlay_opacity, drawing, left_press, slider_ww, slider_wl,
                   last_right_pos>>

\* MainViewModel.set_overlay_opacity(opacity), the opacity in hundredths
call_set_overlay_opacity(opacity) ==
    /\ ev' = <<"set_overlay_opacity">>
    /\ ret' = NoCall
    /\ set_overlay_opacity(opacity)
    /\ signals' = {}
    /\ raised' = "none"
    /\ render_calls' = {}
    /\ UNCHANGED <<volume, mask_image, current_cursor, window_width, window_level,
                   current_tool, brush_radius, view_vars>>

\* MainViewModel.get_slice_display_image(orientation, slice_index, ...), looked
\* at in the pixel p = (row, col) of the image it returns: the pixel under the
\* crosshair lines (before), the mask slice's label there, and the pixel after
\* the overlay loop (out)
call_get_slice_display_image_rgb(orientation, slice_index, p) ==
    LET qimg == get_slice_display_image(volume, current_cursor, orientation,
                                        slice_index)
        labels == mask_slice(mask_image, orientation, slice_index)
    IN  /\ qimg.status = "ok"
        /\ p \in DOMAIN qimg.slice
        /\ ev' = <<"get_slice_display_image">>
        /\ \E g \in astype_uint8(window_norm255(qimg.slice[p], window_width,
                                                 window_level)) :
               LET rgb == crosshair_pixel(g, qimg.crosshair, orientation, p)
                   covered == /\ mask_image.present
                              /\ p[1] < Min2(labels.rows, qimg.h_img)
                              /\ p[2] < Min2(labels.cols, qimg.w_img)
               IN  ret' = [fn |-> "qimg_pixel",
                           args |-> <<orientation, slice_index, p>>,
                           before |-> rgb,
                           label |-> IF covered THEN labels.at[p] ELSE 0,
                           out |-> IF covered
                                   THEN overlay_pixel(rgb, labels.at[p],
                                                      overlay_opacity)
                                   ELSE rgb]
        /\ signals' = {}
        /\ raised' = "none"
        /\ render_calls' = {}
        /\ UNCHANGED <<vm_vars, view_vars>>

\* MainViewModel.load_dicom_directory(directory): the reader fails ("fail") or
\* returns the volume vol ("ok"); the call returns whether it loaded
call_load_dicom_directory(outcome, vol) ==
    /\ ev' = <<"load_dicom_directory", outcome>>
    /\ ret' = [fn |-> "load_dicom_directory", out |-> outcome = "ok",
               before |-> mask_image]
    /\ IF outcome = "ok"
       THEN load_dicom_directory(vol)
       ELSE /\ signals' = {"status_message"}
            /\ raised' = "none"
            /\ render_calls' = {}
            /\ UNCHANGED <<volume, current_cursor, mask_image, current_index,
                           img_shape_hw, shown_window>>
    /\ UNCHANGED <<window_width, window_level, current_tool, brush_radius,
                   overlay_opacity, drawing, left_press, slider_ww, slider_wl, last_right_pos>>

\* MainViewModel.build_3d_volume_actor(), with what grid.contour does during
\* the call
call_build_3d_volume_actor(contour) ==
    /\ ev' = <<"build_3d_volume_actor">>
    /\ ret' = [fn |-> "build_3d_volume_actor", contour |-> contour,
               out |-> build_3d_volume_actor(volume, contour)]
    /\ signals' = {}
    /\ raised' = "none"
    /\ render_calls' = {}
    /\ UNCHANGED <<vm_vars, view_vars>>

\* MainViewModel.build_airway_mesh(), with what grid.contour does during the
\* call
call_build_airway_mesh(contour) ==
    /\ ev' = <<"build_airway_mesh">>
    /\ ret' = [fn |-> "build_airway_mesh", contour |-> contour,
               out |-> build_airway_mesh(volume, contour)]
    /\ signals' = {}
    /\ raised' = "none"
    /\ render_calls' = {}
    /\ UNCHANGED <<vm_vars, view_vars>>

-----------------------------------------------------------------------------
(* The session: the application from start-up, driven by its user *)

\* a volume of the given shape whose voxels all differ: voxel (z, y, x) holds
\* its own row-major position
RampVolume(shape) ==
    [loaded |-> TRUE, shape |-> shape,
     array |-> [v \in Voxels(shape) |-> (v[1] * shape[2] + v[2]) * shape[3] + v[3]]]

\* the volumes the DICOM reader returns in a session
SessionShapes == {<<2, 1, 1>>, <<1, 2, 1>>, <<1, 1, 2>>}
SessionVolumes == {RampVolume(s) : s \in SessionShapes}

\* arguments of a direct set_cursor call: every corner outside the volume, the
\* origin, and one step from the origin along each axis
CursorArgs ==
    ({-1, MaxCoord} \X {-1, MaxCoord} \X {-1, MaxCoord})
        \cup {<<0, 0, 0>>, <<1, 0, 0>>, <<0, 1, 0>>, <<0, 0, 1>>}

\* the image label is MaxPos x MaxPos; the pointer is on any of its points, or
\* off it to the left or below
Positions ==
    ((0 .. MaxPos - 1) \X (0 .. MaxPos - 1)) \cup {<<-1, 0>>, <<0, MaxPos>>}
LabelSizes == {<<MaxPos, MaxPos>>}
WheelDeltas == {-120, 0, 120}
\* arguments of a direct set_tool call: the two tools and two other strings
ToolArgs == {"select", "brush", "eraser", ""}
SliderMoves == {<<"ww", SliderMinWidth>>, <<"ww", DefaultWindowWidth>>,
                <<"wl", SliderMaxLevel>>, <<"wl", DefaultWindowLevel>>}

\* MainViewModel.__init__, AppState's defaults, SliceView.__init__ and the
\* sliders as MainWindow._create_right_panel sets them
Init ==
    /\ volume = NoVolume
    /\ mask_image = NoMask
    /\ current_cursor = <<0, 0, 0>>
    /\ window_width = DefaultWindowWidth
    /\ window_level = DefaultWindowLevel
    /\ current_tool = "select"
    /\ brush_radius = DefaultBrushRadius
    /\ overlay_opacity = DefaultOverlayOpacity
    /\ current_index = [v \in Orientations |-> 0]
    /\ drawing = [v \in Orientations |-> FALSE]
    /\ left_press = Unpaired
    /\ img_shape_hw = [v \in Orientations |-> <<0, 0>>]
    /\ shown_window = [v \in Orientations |-> None]
    /\ slider_ww = DefaultWindowWidth
    /\ slider_wl = DefaultWindowLevel
    /\ last_right_pos = [v \in Orientations |-> None]
    /\ render_calls = {}
    /\ ev = <<"init">>
    /\ signals = {}
    /\ raised = "none"
    /\ ret = NoCall

OpenDicom ==
    \E outcome \in {"cancel", "fail", "ok"}, vol \in SessionVolumes :
        _on_open_dicom(outcome, vol)
SetCursor == \E a \in CursorArgs : call_set_cursor(a[1], a[2], a[3])
Wheel == \E v \in Orientations, delta \in WheelDeltas : wheelEvent(v, delta)
LeftPress ==
    \E v \in Orientations, pos \in Positions, label \in LabelSizes :
        mousePressEvent(v, "left", pos, label)
LeftMove ==
    \E v \in Orientations, pos \in Positions, label \in LabelSizes :
        mouseMoveEvent(v, {"left"}, pos, label)
LeftRelease == \E v \in Orientations : mouseReleaseEvent(v, "left")
ToolTriggered == \E tool \in {"select", "brush"} : _on_tool_triggered(tool)
SetTool == \E tool \in ToolArgs : call_set_tool(tool)
SliderMoved == \E m \in SliderMoves : _on_slider_window_changed(m[1], m[2])

Next ==
    \/ OpenDicom
    \/ SetCursor
    \/ Wheel
    \/ LeftPress
    \/ LeftMove
    \/ LeftRelease
    \/ ToolTriggered
    \/ SetTool

Spec == Init /\ [][Next]_vars

-----------------------------------------------------------------------------
(* Properties of the session *)

CursorInVolume ==
    volume.loaded => current_cursor \in Voxels(volume.shape)

\* C1: whenever a volume of shape (D, H, W) is loaded the global cursor
\* (z, y, x) satisfies 0 <= z < D, 0 <= y < H and 0 <= x < W, and a set_cursor
\* call, whatever its integer arguments, never raises
C1_CursorInRange ==
    /\ CursorInVolume
    /\ ev[1] = "set_cursor" => raised = "none"

\* a set_cursor call with arguments outside the volume has moved the cursor
C1_Witness ==
    /\ ev = <<"set_cursor", "out_of_range">>
    /\ "cursor_changed" \in signals
    /\ current_cursor # <<0, 0, 0>>

\* C6: with a volume loaded, the annotation mask exists and has exactly the
\* volume's shape, after every load, reload and paint
C6_MaskHasVolumeShape ==
    volume.loaded =>
        /\ mask_image.present
        /\ mask_image.shape = volume.shape
        /\ DOMAIN mask_image.array = Voxels(volume.shape)

\* a paint has just marked voxels of the mask
C6_Witness ==
    /\ "mask_changed" \in signals
    /\ \E p \in Voxels(volume.shape) : mask_image.array[p] = 1
    /\ \E p \in Voxels(volume.shape) : mask_image.array[p] = 0

\* C7: a successful load of a volume of shape (D, H, W) leaves the global
\* cursor at exactly (D div 2, H div 2, W div 2)
C7_LoadCentresCursor ==
    "volume_loaded" \in signals =>
        current_cursor = <<volume.shape[1] \div 2, volume.shape[2] \div 2,
                           volume.shape[3] \div 2>>

\* a load has just put the cursor at a centre other than the start-up cursor
C7_Witness ==
    /\ "volume_loaded" \in signals
    /\ current_cursor = <<0, 1, 0>>

\* C8: once a successful load, a set_cursor call with a volume loaded or a
\* select-click has been processed, axial index = cursor z, coronal index =
\* cursor y and sagittal index = cursor x
C8_ViewsFollowCursor ==
    (volume.loaded /\ signals \cap {"cursor_changed", "volume_loaded"} # {}) =>
        \A v \in Orientations : current_index[v] = AxisCoord(current_cursor, v)

\* a select-click has just moved the cursor away from where the load put it
C8_Witness ==
    /\ ev = <<"mousePressEvent", "left">>
    /\ "cursor_changed" \in signals
    /\ volume.shape = <<2, 1, 1>>
    /\ current_cursor = <<0, 0, 0>>
    /\ \A v \in Orientations : current_index[v] = 0

\* C9: a wheel event in view v changes only v's slice index, by +1 or -1
\* clamped to [0, axis length - 1]; the cursor, the other views' indices, the
\* mask and the window setting stay as they were
C9_WheelMovesOneIndex ==
    [][ev'[1] = "wheelEvent" =>
          /\ volume.loaded =>
                \E step \in {-1, 1} :
                    current_index' =
                        [current_index EXCEPT ![ev'[2]] =
                            np_clip(current_index[ev'[2]] + step, 0,
                                    AxisLength(volume.shape, ev'[2]) - 1)]
          /\ ~volume.loaded => UNCHANGED current_index
          /\ UNCHANGED <<current_cursor, mask_image, window_width, window_level>>]_vars

\* a wheel event has just left its view on a slice other than the cursor's
C9_Witness ==
    /\ ev[1] = "wheelEvent"
    /\ volume.loaded
    /\ current_index[ev[2]] # AxisCoord(current_cursor, ev[2])

\* C10: with the brush active a left press or left drag changes neither the
\* cursor nor any view's slice index; with the select tool active a left press
\* or left drag does not change the mask
C10_ToolRouting ==
    [][ev' \in {<<"mousePressEvent", "left">>, <<"mouseMoveEvent", "left">>} =>
          /\ current_tool = "brush" => UNCHANGED <<current_cursor, current_index>>
          /\ current_tool = "select" => UNCHANGED mask_image]_vars

\* a left drag with the brush has just painted while a view is off the
\* cursor's slice
C10_Witness ==
    /\ ev = <<"mouseMoveEvent", "left">>
    /\ current_tool = "brush"
    /\ "mask_changed" \in signals
    /\ \E v \in Orientations : current_index[v] # AxisCoord(current_cursor, v)

\* C14: the active tool is always one of "select" and "brush", "select" at
\* start-up; set_tool with either of the two makes it the active tool, and
\* set_tool with any other value leaves the active tool as it was and raises
\* nothing
C14_ToolIsSelectOrBrush ==
    /\ current_tool = "select"
    /\ [][/\ current_tool' \in {"select", "brush"}
          /\ ev'[1] = "set_tool" =>
                /\ raised' = "none"
                /\ current_tool' = IF ev'[2] \in {"select", "brush"} THEN ev'[2]
                                   ELSE current_tool]_vars

\* set_tool has just been given an unknown identifier while the brush is active
C14_Witness ==
    /\ ev = <<"set_tool", "eraser">>
    /\ current_tool = "brush"

\* C15: a failed load changes no state: the volume, the mask with its painted
\* labels, the cursor, the window setting, the tool and the views' slice
\* indices stay as they were and the failure is reported as a message; a load
\* whose reader succeeds right after a failed one loads the new volume
C15_FailedLoadChangesNothing ==
    [][/\ ev' = <<"_on_open_dicom", "fail">> =>
             /\ UNCHANGED <<volume, mask_image, current_cursor, window_width,
                            window_level, current_tool, brush_radius, overlay_opacity,
                            current_index, drawing, img_shape_hw, shown_window,
                            slider_ww, slider_wl>>
             /\ "status_message" \in signals'
             /\ raised' = "none"
       /\ (ev = <<"_on_open_dicom", "fail">> /\ ev' = <<"_on_open_dicom", "ok">>) =>
             /\ volume' \in SessionVolumes
             /\ "volume_loaded" \in signals'
             /\ mask_image'.shape = volume'.shape]_vars

\* a load has just failed with a volume loaded, a painted mask and a view
\* scrolled off the cursor's slice
C15_Witness ==
    /\ ev = <<"_on_open_dicom", "fail">>
    /\ volume.loaded
    /\ \E p \in Voxels(volume.shape) : mask_image.array[p] = 1
    /\ \E v \in Orientations : current_index[v] # AxisCoord(current_cursor, v)

\* C16: while no volume has been loaded, set_cursor with any arguments leaves
\* the cursor at (0, 0, 0), emits no cursor_changed and raises nothing
C16_SetCursorWithoutVolume ==
    ~volume.loaded =>
        /\ current_cursor = <<0, 0, 0>>
        /\ ev[1] = "set_cursor" => ("cursor_changed" \notin signals /\ raised = "none")

\* set_cursor has just been called before any load
C16_Witness ==
    /\ ev = <<"set_cursor", "no_volume">>
    /\ ~volume.loaded

\* C21: whenever a volume is loaded, every get_slice_display_image call the
\* views made in the last handler passed a slice index within
\* [0, axis length - 1] of the loaded volume for the calling view's
\* orientation, and every view holds such an index for the screen_to_voxel or
\* draw_on_mask call of its next click; this includes the calls made right
\* after a reload while other views still held indices of the old volume
C21_CallersPreClamp ==
    volume.loaded =>
        /\ \A c \in render_calls :
              c.slice_index \in 0 .. AxisLength(volume.shape, c.view) - 1
        /\ \A v \in Orientations :
              current_index[v] \in 0 .. AxisLength(volume.shape, v) - 1

\* a reload has just redrawn a view while another view still held a slice
\* index beyond the new volume
C21_Witness ==
    /\ ev = <<"_on_open_dicom", "ok">>
    /\ \E c \in render_calls : c.stale

-----------------------------------------------------------------------------
(* The session at the window controls: loads, the two sliders and right-drags *)

DragPositions == {<<0, 0>>, <<MaxDragX, MaxDragY>>}

RightPress ==
    \E v \in Orientations, pos \in DragPositions, label \in LabelSizes :
        mousePressEvent(v, "right", pos, label)
RightDrag ==
    \E v \in Orientations, pos \in DragPositions, label \in LabelSizes :
        mouseMoveEvent(v, {"right"}, pos, label)

NextWindow ==
    \/ OpenDicom
    \/ SliderMoved
    \/ RightPress
    \/ RightDrag

SpecWindow == Init /\ [][NextWindow]_vars

\* C12: after any interleaving of slider changes and right-drag moves in any
\* of the three views, the two sliders stand at the one global window setting
\* and the image on every view was rendered with that setting
C12_WindowPathsAgree ==
    /\ slider_ww = window_width
    /\ slider_wl = window_level
    /\ \A v \in Orientations :
          shown_window[v] = IF volume.loaded THEN <<window_width, window_level>>
                            ELSE None

\* a right-drag has just run the width into the top of its range, with the
\* level at the top of its own
C12_Witness ==
    /\ ev = <<"mouseMoveEvent", "right">>
    /\ volume.loaded
    /\ window_width = MaxWindowWidth
    /\ window_level = MaxWindowLevel
    /\ slider_ww = MaxWindowWidth

\* C13: right after every successful load the window setting is the default
\* width and level, whatever the sliders and right-drags did before
C13_LoadResetsWindow ==
    "volume_loaded" \in signals =>
        /\ window_width = DefaultWindowWidth
        /\ window_level = DefaultWindowLevel

-----------------------------------------------------------------------------
(* Direct calls on a loaded ViewModel: rendering and the crosshair *)

\* the shape of the slice an orientation shows: (H, W), (D, W) or (D, H)
SliceShape(shape, orientation) ==
    IF orientation = "axial" THEN <<shape[2], shape[3]>>
    ELSE IF orientation = "coronal" THEN <<shape[1], shape[3]>>
    ELSE <<shape[1], shape[2]>>

\* the application with the volume vol loaded and the cursor then set to the
\* voxel cursor and the brush radius to radius: every view shows the cursor's
\* slice, no mouse button is down
Loaded(vol, cursor, radius) ==
    /\ volume = vol
    /\ mask_image = [present |-> TRUE, shape |-> vol.shape,
                     array |-> np_zeros(vol.shape)]
    /\ current_cursor = cursor
    /\ window_width = DefaultWindowWidth
    /\ window_level = DefaultWindowLevel
    /\ current_tool = "select"
    /\ brush_radius = radius
    /\ overlay_opacity = DefaultOverlayOpacity
    /\ current_index = [v \in Orientations |-> AxisCoord(cursor, v)]
    /\ drawing = [v \in Orientations |-> FALSE]
    /\ left_press = Unpaired
    /\ img_shape_hw = [v \in Orientations |-> SliceShape(vol.shape, v)]
    /\ shown_window = [v \in Orientations |-> <<DefaultWindowWidth, DefaultWindowLevel>>]
    /\ slider_ww = DefaultWindowWidth
    /\ slider_wl = DefaultWindowLevel
    /\ last_right_pos = [v \in Orientations |-> None]
    /\ render_calls = {}
    /\ ev = <<"init">>
    /\ signals = {}
    /\ raised = "none"
    /\ ret = NoCall

RenderShapes == {<<2, 3, 4>>, <<3, 2, 2>>}
IndexArgs == -1 .. MaxIndexArg

InitRender ==
    \E shape \in RenderShapes : \E cursor \in Voxels(shape) :
        Loaded(RampVolume(shape), cursor, DefaultBrushRadius)

\* one rendering of a view, on any slice_index
Render ==
    /\ ret = NoCall
    /\ \E orientation \in Orientations, slice_index \in IndexArgs :
           call_get_slice_display_image(orientation, slice_index)

\* the crosshair of the cursor's own slice, as just rendered, handed back to
\* screen_to_voxel with the display the size of the slice
MapCrosshair ==
    /\ ret.fn = "get_slice_display_image"
    /\ ret.out.status = "ok"
    /\ ret.args[2] = AxisCoord(current_cursor, ret.args[1])
    /\ ret.out.crosshair # None
    /\ call_screen_to_voxel(ret.args[1], ret.args[2],
                            ret.out.crosshair[2], ret.out.crosshair[1],
                            ret.out.w_img, ret.out.h_img,
                            <<ret.out.h_img, ret.out.w_img>>)

NextRender ==
    \/ Render
    \/ MapCrosshair

SpecRender == InitRender /\ [][NextRender]_vars

\* C2: for every orientation and every voxel (z, y, x) of the volume, the
\* (row, col) at which get_slice_display_image draws the crosshair for cursor
\* (z, y, x), passed to screen_to_voxel with slice_index on the voxel's fixed
\* axis and the display the size of the slice, comes back as (z, y, x)
C2_CrosshairRoundTrip ==
    (/\ ret.fn = "screen_to_voxel"
     /\ ret.args[2] = AxisCoord(current_cursor, ret.args[1])
     /\ <<ret.args[4], ret.args[3]>> =
            crosshair(volume.shape, current_cursor, ret.args[1])
     /\ <<ret.args[6], ret.args[5]>> = SliceShape(volume.shape, ret.args[1])
     /\ ret.args[7] = SliceShape(volume.shape, ret.args[1]))
        => ret.out = current_cursor

\* the crosshair of a cursor off every axis' ends and off the volume's centre
\* row has made the round trip through the coronal view
C2_Witness ==
    /\ ret.fn = "screen_to_voxel"
    /\ ret.args[1] = "coronal"
    /\ volume.shape = <<2, 3, 4>>
    /\ current_cursor = <<0, 2, 1>>
    /\ <<ret.args[4], ret.args[3]>> = <<1, 1>>
    /\ ret.out = <<0, 2, 1>>

\* C3: for an in-range index, pixel (r, c) of the extracted slice shows voxel
\* (index, r, c) in axial, (D-1-r, index, c) in coronal and (D-1-r, c, index)
\* in sagittal, on an image of H x W, D x W and D x H pixels
C3_SliceShowsVoxels ==
    (/\ ret.fn = "get_slice_display_image"
     /\ ret.args[2] \in 0 .. AxisLength(volume.shape, ret.args[1]) - 1)
        => /\ ret.out.status = "ok"
           /\ <<ret.out.h_img, ret.out.w_img>> = SliceShape(volume.shape, ret.args[1])
           /\ DOMAIN ret.out.slice = Pixels(ret.out.h_img, ret.out.w_img)
           /\ \A p \in DOMAIN ret.out.slice :
                 ret.out.slice[p] =
                    volume.array[
                        IF ret.args[1] = "axial" THEN <<ret.args[2], p[1], p[2]>>
                        ELSE IF ret.args[1] = "coronal"
                        THEN <<volume.shape[1] - 1 - p[1], ret.args[2], p[2]>>
                        ELSE <<volume.shape[1] - 1 - p[1], p[2], ret.args[2]>>]

\* a sagittal slice of a volume whose D and H differ has been extracted
C3_Witness ==
    /\ ret.fn = "get_slice_display_image"
    /\ ret.args = <<"sagittal", 3>>
    /\ volume.shape = <<2, 3, 4>>
    /\ ret.out.status = "ok"
    /\ ret.out.slice[<<0, 2>>] = volume.array[<<1, 2, 3>>]

\* C20: get_slice_display_image given a slice_index outside
\* [0, axis length - 1], negative or too large, fails with an out-of-bounds
\* error in every orientation and returns no image
C20_ExtractionRejectsBadIndex ==
    (/\ ret.fn = "get_slice_display_image"
     /\ ret.args[2] \notin 0 .. AxisLength(volume.shape, ret.args[1]) - 1)
        => (ret.out.status = "IndexError" /\ raised = "IndexError")

-----------------------------------------------------------------------------
(* Direct calls on a loaded ViewModel: set_window and the window mapping *)

\* a volume of one axial slice whose voxels hold intensities below, at the
\* ends of, inside and above the windows set_window is given
Intensities == <<-2000, -1350, -600, -3, -2, -1, 0, 1, 2, 3, 150, 3000>>
WindowVolume ==
    [loaded |-> TRUE, shape |-> <<1, 3, 4>>,
     array |-> [v \in Voxels(<<1, 3, 4>>) |-> Intensities[v[2] * 4 + v[3] + 1]]]

WidthArgs ==
    (-MaxWidthArg .. MaxWidthArg)
        \cup {SliderMinWidth, DefaultWindowWidth, SliderMaxWidth}
LevelArgs ==
    (-MaxLevelArg .. MaxLevelArg)
        \cup {SliderMinLevel, DefaultWindowLevel, SliderMaxLevel}

InitWindowMap == Loaded(WindowVolume, <<0, 1, 2>>, DefaultBrushRadius)

SetWindow == \E ww \in WidthArgs, wl \in LevelArgs : call_set_window(ww, wl)

\* one element of the image of any slice of any view
RenderPixel ==
    \E orientation \in Orientations :
        \E slice_index \in 0 .. AxisLength(volume.shape, orientation) - 1 :
            \E p \in Pixels(SliceShape(volume.shape, orientation)[1],
                            SliceShape(volume.shape, orientation)[2]) :
                call_get_slice_display_image_pixel(orientation, slice_index, p)

NextWindowMap ==
    \/ SetWindow
    \/ RenderPixel

SpecWindowMap == InitWindowMap /\ [][NextWindowMap]_vars

\* C11: after set_window(width, level) the stored width is the argument
\* clamped into [200, 3000] and the stored level the argument clamped into
\* [-1000, 1000], each on its own
C11_SetWindowClamps ==
    ret.fn = "set_window" =>
        /\ window_width = IF ret.args[1] < MinWindowWidth THEN MinWindowWidth
                          ELSE IF ret.args[1] > MaxWindowWidth THEN MaxWindowWidth
                          ELSE ret.args[1]
        /\ window_level = IF ret.args[2] < MinWindowLevel THEN MinWindowLevel
                          ELSE IF ret.args[2] > MaxWindowLevel THEN MaxWindowLevel
                          ELSE ret.args[2]

\* C18: the display value of an intensity v under the window (width, level)
\* lies in [0, 255]; for a positive width it is 255 * (clip(v) - low) / width
\* truncated, or one less where the 1e-5 in the divisor tips an exact
\* quotient; and the same intensity rendered again under the same window
\* gives the same value
C18_WindowMapping ==
    [][ret'.fn = "slice_uint8" =>
          /\ ret'.out \in 0 .. 255
          /\ window_width > 0 =>
                LET low2 == 2 * window_level - window_width
                    high2 == 2 * window_level + window_width
                    v2 == 2 * ret'.intensity
                    n == (IF v2 < low2 THEN low2 ELSE IF v2 > high2 THEN high2 ELSE v2)
                            - low2
                IN  /\ ret'.out * 2 * window_width <= 255 * n
                    /\ 255 * n <= (ret'.out + 1) * 2 * window_width
          /\ (ret.fn = "slice_uint8" /\ ret.intensity = ret'.intensity) =>
                ret'.out = ret.out]_vars

\* an intensity at the top of the default window has been rendered to 254,
\* one short of the exact quotient
C18_Witness ==
    /\ ret.fn = "slice_uint8"
    /\ window_width = DefaultWindowWidth /\ window_level = DefaultWindowLevel
    /\ ret.intensity = 150
    /\ ret.out = 254

-----------------------------------------------------------------------------
(* Direct calls on a loaded ViewModel: screen_to_voxel on arbitrary arguments *)

MapShapes == {<<2, 3, 4>>}
PointerArgs == -1 .. MaxPix
DisplayArgs == 0 .. MaxDisplay
SliceArgs == 0 .. MaxSlice

InitMap ==
    \E shape \in MapShapes :
        Loaded(RampVolume(shape),
               <<shape[1] \div 2, shape[2] \div 2, shape[3] \div 2>>,
               DefaultBrushRadius)

MapPointer ==
    /\ ret = NoCall
    /\ \E orientation \in Orientations, slice_index \in IndexArgs,
          local_x \in PointerArgs, local_y \in PointerArgs,
          display_width \in DisplayArgs, display_height \in DisplayArgs,
          h_img \in SliceArgs, w_img \in SliceArgs :
           call_screen_to_voxel(orientation, slice_index, local_x, local_y,
                                display_width, display_height, <<h_img, w_img>>)

NextMap == MapPointer

SpecMap == InitMap /\ [][NextMap]_vars

\* the integer that a / b, b > 0, truncates to: the one nearest zero of the two
\* integers that enclose the quotient
Trunc(a, b) ==
    CHOOSE q \in -(MaxPix + 1) * (MaxSlice + 1) .. (MaxPix + 1) * (MaxSlice + 1) :
        IF a >= 0 THEN q * b <= a /\ a < (q + 1) * b
        ELSE (q - 1) * b < a /\ a <= q * b

Clamped(i, n) == IF i < 0 THEN 0 ELSE IF i > n - 1 THEN n - 1 ELSE i

\* C4: with positive display and slice dimensions and a volume of shape
\* (D, H, W), screen_to_voxel takes img_x = trunc(local_x * slice_width /
\* display_width) and img_y = trunc(local_y * slice_height / display_height)
\* and returns (slice_index, img_y, img_x) for axial, (D-1-img_y, slice_index,
\* img_x) for coronal and (D-1-img_y, img_x, slice_index) for sagittal, each
\* component clamped into [0, dim - 1]
C4_ScreenToVoxel ==
    (/\ ret.fn = "screen_to_voxel"
     /\ ret.args[5] > 0 /\ ret.args[6] > 0
     /\ ret.args[7][1] > 0 /\ ret.args[7][2] > 0)
        => LET orientation == ret.args[1]
               slice_index == ret.args[2]
               img_x == Trunc(ret.args[3] * ret.args[7][2], ret.args[5])
               img_y == Trunc(ret.args[4] * ret.args[7][1], ret.args[6])
               D == volume.shape[1]
               H == volume.shape[2]
               W == volume.shape[3]
               zyx == IF orientation = "axial" THEN <<slice_index, img_y, img_x>>
                      ELSE IF orientation = "coronal"
                      THEN <<D - 1 - img_y, slice_index, img_x>>
                      ELSE <<D - 1 - img_y, img_x, slice_index>>
           IN  ret.out = <<Clamped(zyx[1], D), Clamped(zyx[2], H), Clamped(zyx[3], W)>>

\* a coronal call whose row is scaled down with a remainder and whose column
\* is scaled up past the volume
C4_Witness ==
    /\ ret.fn = "screen_to_voxel"
    /\ ret.args = <<"coronal", 1, 3, 2, 1, 3, <<2, 2>>>>
    /\ ret.out = <<0, 1, 3>>

-----------------------------------------------------------------------------
(* Direct calls on a loaded ViewModel: draw_on_mask *)

PaintShapes == {<<2, 3, 4>>}

InitPaint ==
    \E shape \in PaintShapes, radius \in 1 .. MaxRadius :
        Loaded(RampVolume(shape),
               <<shape[1] \div 2, shape[2] \div 2, shape[3] \div 2>>, radius)

\* one stamp of the brush on any pixel of a view whose display is the size of
\* its slice, on any slice_index; a first stamp is followed by a second
Paint ==
    /\ ret = NoCall \/ (ret.fn = "draw_on_mask" /\ ret.first)
    /\ \E orientation \in Orientations, slice_index \in IndexArgs :
           \E p \in Pixels(SliceShape(volume.shape, orientation)[1],
                           SliceShape(volume.shape, orientation)[2]) :
               call_draw_on_mask(orientation, slice_index, p[2], p[1],
                                 SliceShape(volume.shape, orientation)[2],
                                 SliceShape(volume.shape, orientation)[1],
                                 SliceShape(volume.shape, orientation))

NextPaint == Paint

SpecPaint == InitPaint /\ [][NextPaint]_vars

\* the voxel under pixel (row, col) of the slice slice_index of an orientation
VoxelUnder(orientation, slice_index, row, col) ==
    IF orientation = "axial" THEN <<slice_index, row, col>>
    ELSE IF orientation = "coronal" THEN <<volume.shape[1] - 1 - row, slice_index, col>>
    ELSE <<volume.shape[1] - 1 - row, col, slice_index>>

\* v lies in the plane of c that the orientation shows, within r of c
InDisc(orientation, c, r, v) ==
    LET fixed == IF orientation = "axial" THEN 1
                 ELSE IF orientation = "coronal" THEN 2 ELSE 3
        a == IF orientation = "axial" THEN 2 ELSE 1
        b == IF orientation = "sagittal" THEN 2 ELSE 3
    IN  /\ v[fixed] = c[fixed]
        /\ (v[a] - c[a]) * (v[a] - c[a]) + (v[b] - c[b]) * (v[b] - c[b]) <= r * r

\* C5: draw_on_mask with brush radius r on an in-range slice_index sets to 1
\* exactly the mask voxels in the plane of slice_index whose in-plane offset
\* (da, db) from the centre voxel has da*da + db*db <= r*r and that are
\* inside the array; every other voxel keeps its value, and a disc that
\* crosses an edge of the array neither wraps around nor raises
C5_PaintsClippedDisc ==
    (/\ ret.fn = "draw_on_mask"
     /\ ret.args[2] \in 0 .. AxisLength(volume.shape, ret.args[1]) - 1)
        => LET c == VoxelUnder(ret.args[1], ret.args[2], ret.args[4], ret.args[3])
           IN  /\ raised = "none"
               /\ mask_image.array =
                     [v \in Voxels(volume.shape) |->
                         IF InDisc(ret.args[1], c, brush_radius, v) THEN 1
                         ELSE ret.before.array[v]]

\* a second stamp, at a corner of an axial slice with radius 2, has left the
\* voxels of the first stamp on another slice as they were
C5_Witness ==
    /\ ret.fn = "draw_on_mask"
    /\ ~ret.first
    /\ brush_radius = 2
    /\ ret.args[1] = "axial" /\ ret.args[2] = 1
    /\ ret.args[3] = 0 /\ ret.args[4] = 0
    /\ mask_image.array[<<1, 2, 0>>] = 1
    /\ mask_image.array[<<1, 1, 1>>] = 1
    /\ mask_image.array[<<1, 2, 1>>] = 0
    /\ mask_image.array[<<1, 0, 3>>] = 0
    /\ ret.before.array[<<0, 2, 3>>] = 1
    /\ mask_image.array[<<0, 2, 3>>] = 1

\* C19: set_cursor, screen_to_voxel and draw_on_mask clamp every slice index
\* and coordinate they are given, negative ones and ones past the axis
\* included: none of them raises, the cursor and the voxel returned lie in the
\* volume, and draw_on_mask writes the disc in the plane of the clamped slice
\* index and no other voxel
C19_EntryPointsClamp ==
    /\ ev[1] = "set_cursor" => (raised = "none" /\ CursorInVolume)
    /\ ret.fn = "screen_to_voxel" =>
          (raised = "none" /\ ret.out \in Voxels(volume.shape) \cup {None})
    /\ ret.fn = "draw_on_mask" =>
          LET n == AxisLength(volume.shape, ret.args[1])
              c == VoxelUnder(ret.args[1], Clamped(ret.args[2], n),
                              ret.args[4], ret.args[3])
          IN  /\ raised = "none"
              /\ mask_image.array =
                    [v \in Voxels(volume.shape) |->
                        IF InDisc(ret.args[1], c, brush_radius, v) THEN 1
                        ELSE ret.before.array[v]]

-----------------------------------------------------------------------------
(* Direct calls with degenerate sizes, with and without a volume *)

DegenerateShapes == {<<2, 3, 4>>}
DegenerateArgs == -1 .. MaxDegenerate

\* the application at start-up, or with a volume loaded
InitDegenerate ==
    \/ Init
    \/ \E shape \in DegenerateShapes :
           Loaded(RampVolume(shape),
                  <<shape[1] \div 2, shape[2] \div 2, shape[3] \div 2>>,
                  DefaultBrushRadius)

MapDegenerate ==
    /\ ret = NoCall
    /\ \E orientation \in Orientations, local_x \in 0 .. 1,
          display_width \in DegenerateArgs, display_height \in DegenerateArgs,
          h_img \in DegenerateArgs, w_img \in DegenerateArgs :
           call_screen_to_voxel(orientation, 0, local_x, 0,
                                display_width, display_height, <<h_img, w_img>>)

PaintDegenerate ==
    /\ ret = NoCall
    /\ \E orientation \in Orientations, local_x \in 0 .. 1,
          display_width \in DegenerateArgs, display_height \in DegenerateArgs,
          h_img \in DegenerateArgs, w_img \in DegenerateArgs :
           call_draw_on_mask(orientation, 0, local_x, 0,
                             display_width, display_height, <<h_img, w_img>>)

ClickDegenerate ==
    /\ ret = NoCall
    /\ \E v \in Orientations, pos \in Positions, label \in LabelSizes :
           call_on_left_click(v, pos, label)

NextDegenerate ==
    \/ MapDegenerate
    \/ PaintDegenerate
    \/ ClickDegenerate

SpecDegenerate == InitDegenerate /\ [][NextDegenerate]_vars

\* a call with these arguments has nothing to map: no volume, or a display or
\* slice dimension that is zero or negative
NothingToMap(display_width, display_height, shape_hw) ==
    \/ ~volume.loaded
    \/ display_width <= 0 \/ display_height <= 0
    \/ shape_hw[1] <= 0 \/ shape_hw[2] <= 0

\* C17: screen_to_voxel returns None, and raises nothing, whenever a display
\* dimension or a slice dimension is zero or negative or no volume is loaded;
\* a draw_on_mask call in such a case leaves the mask as it was and emits no
\* mask_changed; a select-click that gets no mapping leaves the cursor as it
\* was
C17_NoMapping ==
    /\ (ret.fn = "screen_to_voxel"
            /\ NothingToMap(ret.args[5], ret.args[6], ret.args[7]))
          => (ret.out = None /\ raised = "none")
    /\ (ret.fn = "draw_on_mask"
            /\ NothingToMap(ret.args[5], ret.args[6], ret.args[7]))
          => (mask_image = ret.before /\ "mask_changed" \notin signals
                /\ raised = "none")
    /\ (ret.fn = "_on_left_click"
            /\ NothingToMap(Max2(ret.args[3][1], 1), Max2(ret.args[3][2], 1),
                            img_shape_hw[ret.args[1]]))
          => (current_cursor = ret.before /\ "cursor_changed" \notin signals
                /\ raised = "none")

\* draw_on_mask has been called on a loaded volume with a slice of height
\* zero on a display of positive size
C17_Witness ==
    /\ ret.fn = "draw_on_mask"
    /\ volume.loaded
    /\ ret.args[5] > 0 /\ ret.args[6] > 0
    /\ ret.args[7] = <<0, 1>>
    /\ signals = {}

-----------------------------------------------------------------------------
(* The basic path: main.py's SliceView, which reads the volume and the      *)
(* AppState itself, next to the ViewModel path on the same volume and cursor *)

\* main.py SliceView.update_view, lines 214-229: the slice with the basic
\* path's rotation and flips, the coronal one turned twice by 90 degrees
basic_slice_img(arr, shape, orientation, index) ==
    IF orientation = "axial" THEN plane_z(arr, shape, index)
    ELSE IF orientation = "coronal"
    THEN np_rot90_ccw(np_rot90_ccw(plane_y(arr, shape, index)))
    ELSE np_rot90_cw(np_fliplr(np_rot90_ccw(plane_x(arr, shape, index))))

\* main.py SliceView.update_view, lines 253-272: the crosshair's (row, col)
basic_crosshair(shape, cursor, orientation) ==
    LET d == shape[1]
        h == shape[2]
        w == shape[3]
        z == cursor[1]
        y == cursor[2]
        x == cursor[3]
        rz == d - 1 - z
        cx == w - 1 - x
    IN  IF orientation = "axial"
        THEN IF 0 <= y /\ y < h /\ 0 <= x /\ x < w THEN <<y, x>> ELSE None
        ELSE IF orientation = "coronal"
        THEN IF 0 <= rz /\ rz < d /\ 0 <= cx /\ cx < w THEN <<rz, cx>> ELSE None
        ELSE IF 0 <= rz /\ rz < d /\ 0 <= y /\ y < h THEN <<rz, y>> ELSE None

\* main.py SliceView.update_view with a volume: the image as
\* get_slice_display_image describes its own
update_view(vol, cursor, orientation, index) ==
    IF ~IndexInBounds(AxisLength(vol.shape, orientation), index)
    THEN [status |-> "IndexError"]
    ELSE LET s == basic_slice_img(vol.array, vol.shape, orientation, index)
         IN  [status |-> "ok", h_img |-> s.rows, w_img |-> s.cols, slice |-> s.at,
              crosshair |-> basic_crosshair(vol.shape, cursor, orientation)]

\* main.py SliceView._update_cursor_from_mouse: the cursor it leaves in the
\* AppState, the old one when the pointer is off the display
_update_cursor_from_mouse(vol, cursor, orientation, index, local_x, local_y, display_width, display_height, shape_hw) ==
    IF ~vol.loaded THEN cursor
    ELSE IF \/ local_x < 0 \/ local_y < 0
            \/ local_x >= display_width \/ local_y >= display_height
    THEN cursor
    ELSE IF shape_hw[1] <= 0 \/ shape_hw[2] <= 0 THEN cursor
    ELSE LET label_w == Max2(display_width, 1)
             label_h == Max2(display_height, 1)
             img_x == int_div(local_x * shape_hw[2], label_w)
             img_y == int_div(local_y * shape_hw[1], label_h)
             d == vol.shape[1]
             h == vol.shape[2]
             w == vol.shape[3]
             zyx == IF orientation = "axial" THEN <<index, img_y, img_x>>
                    ELSE IF orientation = "coronal"
                    THEN <<d - 1 - img_y, index, w - 1 - img_x>>
                    ELSE <<d - 1 - img_y, img_x, index>>
         IN  <<np_clip(zyx[1], 0, d - 1), np_clip(zyx[2], 0, h - 1),
               np_clip(zyx[3], 0, w - 1)>>

\* both paths render the slice slice_index of one orientation
RenderBothPaths ==
    \E orientation \in Orientations :
        \E slice_index \in 0 .. AxisLength(volume.shape, orientation) - 1 :
            /\ ev' = <<"update_view">>
            /\ ret' = [fn |-> "update_view", args |-> <<orientation, slice_index>>,
                       out |-> update_view(volume, current_cursor, orientation,
                                           slice_index),
                       vm |-> get_slice_display_image(volume, current_cursor,
                                                      orientation, slice_index)]
            /\ signals' = {}
            /\ raised' = "none"
            /\ render_calls' = {}
            /\ UNCHANGED <<vm_vars, view_vars>>

\* both paths map a pixel of the image, shown at its own size, to a voxel
MapBothPaths ==
    \E orientation \in Orientations :
        \E slice_index \in 0 .. AxisLength(volume.shape, orientation) - 1 :
            \E p \in Pixels(SliceShape(volume.shape, orientation)[1],
                            SliceShape(volume.shape, orientation)[2]) :
                LET hw == SliceShape(volume.shape, orientation)
                IN  /\ ev' = <<"_update_cursor_from_mouse">>
                    /\ ret' = [fn |-> "_update_cursor_from_mouse",
                               args |-> <<orientation, slice_index, p[2], p[1]>>,
                               out |-> _update_cursor_from_mouse(
                                           volume, current_cursor, orientation,
                                           slice_index, p[2], p[1], hw[2], hw[1], hw),
                               vm |-> screen_to_voxel(
                                           volume, current_cursor, orientation,
                                           slice_index, p[2], p[1], hw[2], hw[1], hw)]
                    /\ signals' = {}
                    /\ raised' = "none"
                    /\ render_calls' = {}
                    /\ UNCHANGED <<vm_vars, view_vars>>

NextBasic ==
    \/ RenderBothPaths
    \/ MapBothPaths

SpecBasic == InitRender /\ [][NextBasic]_vars

\* C22: on the coronal view the basic path and the ViewModel path give the
\* same slice image, the same crosshair pixel and the same voxel for a pixel
C22_CoronalPathsAgree ==
    (ret.fn \in {"update_view", "_update_cursor_from_mouse"} /\ ret.args[1] = "coronal")
        => ret.out = ret.vm

-----------------------------------------------------------------------------
(* Direct calls on a loaded ViewModel: the annotation overlay *)

\* positions of the opacity slider (its range is 0 .. 100, lines 256-257) and
\* arguments of a direct set_overlay_opacity call, in hundredths: the quarters
\* of the range, and one value off either end
SliderOpacities == {0, 25, 50, 75, 100}
OpacityArgs == SliderOpacities \cup {-25, 125}

\* the display pixels (x, y) of the axial view that the brush is stamped on
OverlayStamps == {<<0, 0>>, <<3, 2>>}

InitOverlay == Loaded(WindowVolume, <<0, 1, 2>>, MinBrushRadius)

OverlayOpacitySlider ==
    \E value \in SliderOpacities : _on_overlay_opacity_changed(value)
SetOverlayOpacity == \E opacity \in OpacityArgs : call_set_overlay_opacity(opacity)
StampAxial ==
    \E xy \in OverlayStamps :
        call_draw_on_mask("axial", 0, xy[1], xy[2], 4, 3, <<3, 4>>)
RenderRgb ==
    \E orientation \in Orientations :
        \E slice_index \in 0 .. AxisLength(volume.shape, orientation) - 1 :
            \E p \in Pixels(SliceShape(volume.shape, orientation)[1],
                            SliceShape(volume.shape, orientation)[2]) :
                call_get_slice_display_image_rgb(orientation, slice_index, p)

NextOverlay ==
    \/ OverlayOpacitySlider
    \/ SetOverlayOpacity
    \/ StampAxial
    \/ RenderRgb

SpecOverlay == InitOverlay /\ [][NextOverlay]_vars

-----------------------------------------------------------------------------
(* The session of loads and brush presses *)

LoadDirectory ==
    \E outcome \in {"fail", "ok"}, vol \in SessionVolumes :
        call_load_dicom_directory(outcome, vol)

NextReload ==
    \/ LoadDirectory
    \/ ToolTriggered
    \/ LeftPress

SpecReload == Init /\ [][NextReload]_vars

\* C24: right after every successful load every voxel of the annotation mask
\* is 0, whatever was painted on the volume loaded before
C24_LoadClearsMask ==
    (ret.fn = "load_dicom_directory" /\ ret.out) =>
        /\ mask_image.present
        /\ \A p \in DOMAIN mask_image.array : mask_image.array[p] = 0

\* a load has just succeeded over a volume whose mask had painted voxels
C24_Witness ==
    /\ ret.fn = "load_dicom_directory"
    /\ ret.out
    /\ ret.before.present
    /\ \E p \in DOMAIN ret.before.array : ret.before.array[p] = 1

-----------------------------------------------------------------------------
(* The session with direct rendering calls between its events *)

RenderSlice ==
    \E orientation \in Orientations, slice_index \in -1 .. MaxCoord :
        call_get_slice_display_image(orientation, slice_index)

NextFrame ==
    \/ OpenDicom
    \/ ToolTriggered
    \/ LeftPress
    \/ RenderSlice

SpecFrame == Init /\ [][NextFrame]_vars

\* C25: get_slice_display_image, for any orientation and index, leaves the
\* volume's voxels, the mask, the cursor, the window setting and the tool as
\* they were; and no operation but a successful load changes the volume's
\* voxels
C25_RenderingChangesNothing ==
    [][/\ ev' = <<"get_slice_display_image">> =>
             UNCHANGED <<volume, mask_image, current_cursor, window_width,
                         window_level, current_tool>>
       /\ volume' # volume =>
             (ev' = <<"_on_open_dicom", "ok">> /\ "volume_loaded" \in signals')]_vars

\* an image with a crosshair has just been rendered of a volume whose mask has
\* painted voxels
C25_Witness ==
    /\ ev = <<"get_slice_display_image">>
    /\ ret.out.status = "ok"
    /\ ret.out.crosshair # None
    /\ \E p \in DOMAIN mask_image.array : mask_image.array[p] = 1

-----------------------------------------------------------------------------
(* The session with the two 3D build operations *)

Build3dVolumeActor ==
    \E contour \in {"mesh", "exception"} : call_build_3d_volume_actor(contour)
BuildAirwayMesh ==
    \E contour \in {"mesh", "exception"} : call_build_airway_mesh(contour)

NextBuild3d ==
    \/ OpenDicom
    \/ SetCursor
    \/ Wheel
    \/ Build3dVolumeActor
    \/ BuildAirwayMesh

SpecBuild3d == Init /\ [][NextBuild3d]_vars

\* C26: when the isosurface construction fails in build_3d_volume_actor or in
\* build_airway_mesh on a loaded volume, the call returns renderer input for
\* direct volume rendering
C26_BuildFallsBack ==
    (/\ ret.fn \in {"build_3d_volume_actor", "build_airway_mesh"}
     /\ ret.contour = "exception"
     /\ volume.loaded)
        => (ret.out # None /\ ret.out.data = "grid")

-----------------------------------------------------------------------------
(* Scrolling and select-clicks on a loaded volume *)

ClickShapes == {<<2, 3, 2>>}

InitClick ==
    \E shape \in ClickShapes : \E cursor \in Voxels(shape) :
        Loaded(RampVolume(shape), cursor, DefaultBrushRadius)

SelectClick ==
    \E v \in Orientations, pos \in Positions, label \in LabelSizes :
        call_on_left_click(v, pos, label)

NextClick ==
    \/ Wheel
    \/ SelectClick

SpecClick == InitClick /\ [][NextClick]_vars

\* C27: a select-click that sets the cursor leaves the clicked view's slice
\* index as it was, also when the view was scrolled off the cursor's slice: the
\* new cursor's coordinate on the view's axis is the view's slice index, and
\* the views whose slice index changes are among the other two
C27_ClickKeepsOwnSlice ==
    [][(ev'[1] = "_on_left_click" /\ "cursor_changed" \in signals') =>
          /\ current_index'[ev'[2]] = current_index[ev'[2]]
          /\ AxisCoord(current_cursor', ev'[2]) = current_index[ev'[2]]
          /\ \A u \in Orientations :
                current_index'[u] # current_index[u] => u # ev'[2]]_vars

\* a click has just set the cursor from a view that was scrolled off the old
\* cursor's slice, and another view shows a slice the old cursor was not on
C27_Witness ==
    /\ ev[1] = "_on_left_click"
    /\ "cursor_changed" \in signals
    /\ AxisCoord(ret.before, ev[2]) # current_index[ev[2]]
    /\ \E u \in Orientations \ {ev[2]} :
          AxisCoord(ret.before, u) # current_index[u]

-----------------------------------------------------------------------------
(* The session of paints, clicks, scrolls, tool and window changes and loads *)

WidthSliderMoved ==
    \E value \in {SliderMinWidth, DefaultWindowWidth} :
        _on_slider_window_changed("ww", value)

NextMask ==
    \/ OpenDicom
    \/ ToolTriggered
    \/ LeftPress
    \/ LeftMove
    \/ Wheel
    \/ WidthSliderMoved

SpecMask == Init /\ [][NextMask]_vars

\* C28: every voxel of the mask is 0 or 1, and a voxel that is 1 stays 1 under
\* every paint, click, scroll, tool change, window change and failed load: only
\* a successful load makes it 0 again
C28_MaskOnlyGrows ==
    [][/\ mask_image'.present =>
             \A p \in DOMAIN mask_image'.array : mask_image'.array[p] \in {0, 1}
       /\ (mask_image.present /\ ev' # <<"_on_open_dicom", "ok">>) =>
             /\ mask_image'.present
             /\ mask_image'.shape = mask_image.shape
             /\ \A p \in DOMAIN mask_image.array :
                   mask_image.array[p] = 1 => mask_image'.array[p] = 1]_vars

\* a view has just been scrolled over a mask with a painted voxel, after a
\* window change
C28_Witness ==
    /\ ev[1] = "wheelEvent"
    /\ mask_image.present
    /\ \E p \in DOMAIN mask_image.array : mask_image.array[p] = 1
    /\ window_width = SliderMinWidth

-----------------------------------------------------------------------------
(* A session of drags: the left button goes down only while it is up, and its
   release reaches the view that received the press *)

InitDrag ==
    /\ volume = NoVolume
    /\ mask_image = NoMask
    /\ current_cursor = <<0, 0, 0>>
    /\ window_width = DefaultWindowWidth
    /\ window_level = DefaultWindowLevel
    /\ current_tool = "select"
    /\ brush_radius = DefaultBrushRadius
    /\ overlay_opacity = DefaultOverlayOpacity
    /\ current_index = [v \in Orientations |-> 0]
    /\ drawing = [v \in Orientations |-> FALSE]
    /\ left_press = NoPress
    /\ img_shape_hw = [v \in Orientations |-> <<0, 0>>]
    /\ shown_window = [v \in Orientations |-> None]
    /\ slider_ww = DefaultWindowWidth
    /\ slider_wl = DefaultWindowLevel
    /\ last_right_pos = [v \in Orientations |-> None]
    /\ render_calls = {}
    /\ ev = <<"init">>
    /\ signals = {}
    /\ raised = "none"
    /\ ret = NoCall

DragPress ==
    /\ left_press = NoPress
    /\ \E v \in Orientations, pos \in Positions, label \in LabelSizes :
           mousePressEvent(v, "left", pos, label)
DragRelease ==
    /\ left_press # NoPress
    /\ mouseReleaseEvent(left_press.view, "left")

NextDrag ==
    \/ OpenDicom
    \/ ToolTriggered
    \/ DragPress
    \/ LeftMove
    \/ DragRelease

SpecDrag == InitDrag /\ [][NextDrag]_vars

\* C29: a left-button move in a view changes the mask only if the last left
\* press went to that same view while the brush was active and a volume was
\* loaded, no left release followed it, and the brush is still active at the
\* move; so a drag begun with the select tool, a move after the release and a
\* move after switching to select never paint
C29_BrushDragGating ==
    [][\A v \in Orientations, pos \in Positions, label \in LabelSizes :
          (mouseMoveEvent(v, {"left"}, pos, label) /\ mask_image' # mask_image) =>
              /\ left_press.view = v
              /\ left_press.tool = "brush"
              /\ left_press.loaded
              /\ current_tool = "brush"]_vars

\* a move of a brush drag has just painted, in the view where the press of the
\* drag landed
C29_Witness ==
    /\ ev = <<"mouseMoveEvent", "left">>
    /\ "mask_changed" \in signals
    /\ left_press.tool = "brush"
    /\ left_press.loaded
    /\ \E c \in render_calls : c.view = left_press.view

-----------------------------------------------------------------------------
(* draw_on_mask and the overlay of get_slice_display_image *)

\* C30: after draw_on_mask at the display pixel (row, col) of an in-range slice
\* of any orientation, the display the size of the slice, the mask slice that
\* get_slice_display_image overlays for that orientation and index is
\* labelled at (row, col), and its newly labelled pixels are those within the
\* brush radius of (row, col)
C30_PaintLandsUnderPointer ==
    (/\ ret.fn = "draw_on_mask"
     /\ ret.args[2] \in 0 .. AxisLength(volume.shape, ret.args[1]) - 1
     /\ ret.args[7] = <<ret.args[6], ret.args[5]>>)
        => LET row == ret.args[4]
               col == ret.args[3]
               shown == mask_slice(mask_image, ret.args[1], ret.args[2])
               before == mask_slice(ret.before, ret.args[1], ret.args[2])
           IN  /\ <<shown.rows, shown.cols>> = ret.args[7]
               /\ shown.at[<<row, col>>] > 0
               /\ \A q \in Pixels(shown.rows, shown.cols) :
                      shown.at[q] > 0 <=>
                          \/ before.at[q] > 0
                          \/ (q[1] - row) * (q[1] - row) + (q[2] - col) * (q[2] - col)
                                 <= brush_radius * brush_radius

\* a first stamp of radius 1 at pixel (0, 2) of a coronal slice shows at
\* (0, 2) and at (0, 1), and not at (1, 1)
C30_Witness ==
    /\ ret.fn = "draw_on_mask"
    /\ ret.first
    /\ brush_radius = 1
    /\ ret.args[1] = "coronal" /\ ret.args[2] = 1
    /\ ret.args[3] = 2 /\ ret.args[4] = 0
    /\ mask_slice(mask_image, "coronal", 1).at[<<0, 2>>] = 1
    /\ mask_slice(mask_image, "coronal", 1).at[<<0, 1>>] = 1
    /\ mask_slice(mask_image, "coronal", 1).at[<<1, 1>>] = 0
====
